---- MODULE Spec2Model ----
(***************************************************************************)
(* Verification model of the retrieval core of rag-ui:                     *)
(*   - scripts/build-index.ts   (embedWithRetry, main)                     *)
(*   - lib/rag/indexer.ts       (buildIndexWeb, trimToRoughChars)          *)
(*   - lib/rag/search.ts        (loadIndex, formatContextForPrompt)        *)
(*   - app/api/ask/route.ts     (getIndex)                                 *)
(*   - lib/rag/retrieval.ts     (mmr, retrieve, buildContext)              *)
(*   - lib/rag/chunk.ts and scripts/build-index.ts (chunkStructured)       *)
(*   - the three query paths: retrieve (retrieval.ts), embedQuestion +    *)
(*     search (search.ts), POST (app/api/ask/route.ts)                     *)
(*   - lib/rag/indexer.ts       (runPythonAsk)                             *)
(* Each component has its own specification (SpecRetry, SpecBuild,         *)
(* SpecLoad, SpecRetrieve, SpecWide, SpecMmr, SpecContext, SpecChunk,      *)
(* SpecAsk, SpecPost, SpecPy); the variables of the other components stay  *)
(* at their idle value.                                                    *)
(***************************************************************************)
EXTENDS Integers, Sequences, FiniteSets, TLC

VARIABLES
    \* embedWithRetry
    attempts,      \* the `attempts` parameter
    script,        \* what the embedding service answers to call 1, 2, ...
    rpc,           \* "idle" | "ready" | "done"
    ret,           \* the completed run: outcome, value, calls, events
    \* index build (main of build-index.ts, buildIndexWeb of indexer.ts)
    builder,       \* "main" | "web" | "none"
    INDEX_FILE,    \* configured target path
    files,         \* files[f] = number of chunks the text of file f yields
    names,         \* names[f]: basename and kind of file f, and whether
                   \* its content can be read and extracted
    pc,            \* position of the build
    chunks,        \* all chunks produced so far (main: the corpus list)
    vectors,       \* main: vectors; web: the items' embeddings
    itemTexts,     \* web: the items' text fields
    itemIds,       \* web: the items' id fields
    cursor,        \* <<file, offset>> of the next batch (web) / <<0, i>> (main)
    returned,      \* number of vectors the service returned in total
    embedThrew,    \* some embedding call of this build ended in a throw
    err,           \* what the build threw, "" if nothing
    fsys,          \* file system: path -> content
    fsys0,         \* the file system when the build started
    wfile,         \* the path the in-progress writeFile has open
    lastRead,      \* what the reader's last read of the target returned
    \* index loading (loadIndex of search.ts, getIndex of route.ts)
    loader,        \* "loadIndex" | "getIndex" | "none"
    disk,          \* the parsed content of the index file at each path
    memoIndex,     \* search.ts: let memoIndex
    cache,         \* route.ts: let cache
    lret,          \* outcome and value of the last load, and its path
    \* retrieve (retrieval.ts)
    index,         \* the VectorIndex: chunks, vectors
    kwNorm,        \* kwNorm[i]: tanh(0.5 * kwScore(question, chunk i))
    qv,            \* the embedding of the question
    topK,
    neighborWindow,
    qpc,           \* "idle" | "ready" | "done" | "failed"
    scored,        \* retrieve's `scored` after the sort
    picked,        \* retrieve's `picked`
    accessed,      \* positions of index.chunks read by the neighbour step
    result,        \* what retrieve returned
    \* context assembly (buildContext, formatContextForPrompt,
    \* trimToRoughChars + formatContext)
    assembler,     \* which of the three runs
    passages,      \* the input list, in rank order
    budget,        \* maxChars | budgetTokens | charBudget
    cpc,           \* "idle" | "ready" | "done"
    cout,          \* the included passages and the rendered length
    \* chunkStructured (chunk.ts, and its variant in build-index.ts)
    chunker,       \* "chunk.ts" | "build-index.ts" | "none"
    doc,           \* the document: its lines
    targetChars,
    overlapChars,
    kpc,           \* "idle" | "ready" | "done"
    chunkOut,      \* the chunks returned, in emission sequence
    \* a question taken through one of the query paths
    askPath,       \* "retrieve" | "search.ts" | "route.ts" | "none"
    askIndex,      \* the index the path scores: its model field, its vectors
    askModel,      \* the model named in the path's embeddings.create call
    askVec,        \* the vector that call answered with
    askScores,     \* the similarity computed for each index vector
    apc,           \* "idle" | "ready" | "embedded" | "scored"
    \* mmr (retrieval.ts) on its own
    mmrItems,      \* the candidates, sorted by fused score descending
    mmrVecs,       \* the index vectors
    mmrK,          \* K
    mmrSel,        \* what mmr returned
    mpc,           \* "idle" | "ready" | "done"
    \* POST /api/ask (route.ts)
    postBody,      \* what the request body holds
    postKey,       \* OPENAI_API_KEY
    postEnv,       \* how the index file and the two services behave
    ppc,           \* the handler's position
    postResp,      \* the response returned, NoResponse before
    \* runPythonAsk (indexer.ts)
    pySettings,    \* what the environment holds
    child,         \* child[k]: the process of run k
    killTimer,     \* killTimer[k]: the timer of run k
    settled,       \* settled[k]: what the promise of run k resolved with
    ypc,           \* position of runPythonAsk
    pyRet          \* what runPythonAsk returned

retryVars == <<attempts, script, rpc, ret>>
buildVars == <<builder, INDEX_FILE, files, names, pc, chunks, vectors,
               itemTexts, itemIds, cursor, returned, embedThrew, err, fsys,
               fsys0, wfile, lastRead>>
loadVars == <<loader, disk, memoIndex, cache, lret>>
retrieveVars == <<index, kwNorm, qv, topK, neighborWindow, qpc, scored,
                  picked, accessed, result>>
contextVars == <<assembler, passages, budget, cpc, cout>>
chunkVars == <<chunker, doc, targetChars, overlapChars, kpc, chunkOut>>
askVars == <<askPath, askIndex, askModel, askVec, askScores, apc>>
mmrVars == <<mmrItems, mmrVecs, mmrK, mmrSel, mpc>>
postVars == <<postBody, postKey, postEnv, ppc, postResp>>
pyVars == <<pySettings, child, killTimer, settled, ypc, pyRet>>
vars == <<retryVars, buildVars, loadVars, retrieveVars, contextVars,
          chunkVars, askVars, mmrVars, postVars, pyVars>>

notRetry == <<buildVars, loadVars, retrieveVars, contextVars, chunkVars,
              askVars, mmrVars, postVars, pyVars>>
notBuild == <<retryVars, loadVars, retrieveVars, contextVars, chunkVars,
              askVars, mmrVars, postVars, pyVars>>
notLoad == <<retryVars, buildVars, retrieveVars, contextVars, chunkVars,
             askVars, mmrVars, postVars, pyVars>>
notRetrieve == <<retryVars, buildVars, loadVars, contextVars, chunkVars,
                 askVars, mmrVars, postVars, pyVars>>
notContext == <<retryVars, buildVars, loadVars, retrieveVars, chunkVars,
                askVars, mmrVars, postVars, pyVars>>
notChunk == <<retryVars, buildVars, loadVars, retrieveVars, contextVars,
              askVars, mmrVars, postVars, pyVars>>
notAsk == <<retryVars, buildVars, loadVars, retrieveVars, contextVars,
            chunkVars, mmrVars, postVars, pyVars>>
notMmr == <<retryVars, buildVars, loadVars, retrieveVars, contextVars,
            chunkVars, askVars, postVars, pyVars>>
notPost == <<retryVars, buildVars, loadVars, retrieveVars, contextVars,
             chunkVars, askVars, mmrVars, pyVars>>
notPy == <<retryVars, buildVars, loadVars, retrieveVars, contextVars,
           chunkVars, askVars, mmrVars, postVars>>

Range(s) == {s[i] : i \in DOMAIN s}

(***************************************************************************)
(* The embedding service, seen from a caller.  A reply is a response       *)
(* holding as many vectors as inputs ("exact"), one fewer ("short"), one   *)
(* more ("long") or as many with one of another length ("ragged"), or an   *)
(* error carrying `status` (0: no status) and `code`.                      *)
(* The OpenAI client's errors carry a numeric status or none, and a code   *)
(* that is a string or absent.                                             *)
(***************************************************************************)
Resp(k) == [kind |-> k, status |-> 0, code |-> ""]
Err(s, c) == [kind |-> "error", status |-> s, code |-> c]

Responses ==
    {Resp("exact"), Resp("short"), Resp("long"), Resp("ragged")}
Errors == {Err(400, "bad_request"), Err(429, "rate_limit_exceeded"),
           Err(499, ""), Err(500, ""), Err(599, ""), Err(600, ""),
           Err(0, "ECONNRESET"), Err(0, "")}
Replies == Responses \cup Errors
Undefined == [kind |-> "undefined", status |-> 0, code |-> ""]

DefaultAttempts == 4
MaxAttempts == 4

\* build-index.ts 232-233: code = e?.status || e?.code, then the numeric test.
\* A status of 0 or none falls through to e.code, a string or nothing, for
\* which `=== 429` and the range comparison are both false.
Retriable_Exclusive500(e) ==
    e.status # 0 /\ (e.status = 429 \/ (e.status > 500 /\ e.status < 600))
Retriable(e) ==
    e.status # 0 /\ (e.status = 429 \/ (e.status >= 500 /\ e.status < 600))

RECURSIVE Pow2(_)
Pow2(n) == IF n <= 0 THEN 1 ELSE 2 * Pow2(n - 1)

\* build-index.ts 235
BackoffMs(i) == 300 * Pow2(i)

CallEv(i) == [ev |-> "call", i |-> i, ms |-> 0]
WaitEv(i, ms) == [ev |-> "wait", i |-> i, ms |-> ms]

\* build-index.ts 224-240: the loop from attempt i on; `events` is the log of
\* service calls and delays so far, `lastErr` the variable of that name.
RECURSIVE RetryLoop(_, _, _, _, _)
RetryLoop(n, sc, i, lastErr, events) ==
    IF i >= n
    THEN [outcome |-> "thrown", value |-> lastErr, events |-> events]
    ELSE LET reply == sc[i + 1]
             ev1 == Append(events, CallEv(i))
         IN IF reply.kind # "error"
            THEN [outcome |-> "returned", value |-> reply, events |-> ev1]
            ELSE IF ~Retriable(reply) \/ i = n - 1
                 THEN [outcome |-> "thrown", value |-> reply, events |-> ev1]
                 ELSE RetryLoop(n, sc, i + 1, reply,
                                Append(ev1, WaitEv(i, BackoffMs(i))))

embedWithRetry(n, sc) == RetryLoop(n, sc, 0, Undefined, <<>>)

NoRun == [outcome |-> "none", value |-> Undefined, events |-> <<>>]

RetryIdle == attempts = 0 /\ script = <<>> /\ rpc = "idle" /\ ret = NoRun

RetryInit ==
    /\ attempts \in 1..MaxAttempts
    /\ script \in [1..attempts -> Replies]
    /\ rpc = "ready"
    /\ ret = NoRun

RunEmbedWithRetry ==
    /\ rpc = "ready"
    /\ ret' = embedWithRetry(attempts, script)
    /\ rpc' = "done"
    /\ UNCHANGED <<attempts, script>>
    /\ UNCHANGED notRetry

(***************************************************************************)
(* C5: embedWithRetry calls the service again only after a failure whose   *)
(* status is 429 or in 500..599, makes at most `attempts` calls, returns   *)
(* the first successful response, rethrows a non-retriable error at once   *)
(* and the last error when every attempt failed, and waits 300*2^i ms      *)
(* after failed attempt i before the next call, never after the last one.  *)
(***************************************************************************)
StatusIsTransient(s) == s = 429 \/ s \in 500..599

NumCalls(r) == Cardinality({k \in DOMAIN r.events : r.events[k].ev = "call"})

C5_RetryContract ==
    rpc = "done" =>
        LET ev == ret.events
            calls == NumCalls(ret)
        IN /\ calls >= 1 /\ calls <= attempts
           /\ Len(ev) = 2 * calls - 1
           /\ \A k \in 1..calls : ev[2 * k - 1] = CallEv(k - 1)
           /\ \A k \in 1..(calls - 1) :
                /\ script[k].kind = "error"
                /\ StatusIsTransient(script[k].status)
                /\ ev[2 * k].ev = "wait"
                /\ ev[2 * k].ms = 300 * (2 ^ (k - 1))
           /\ ret.value = script[calls]
           /\ (ret.outcome = "returned") = (script[calls].kind # "error")
           /\ (ret.outcome = "thrown") = (script[calls].kind = "error")
           /\ ret.outcome = "thrown" =>
                \/ ~StatusIsTransient(script[calls].status)
                \/ calls = attempts

\* Four transient failures in a row: three waits of 300, 600 and 1200 ms, then
\* the fourth error is rethrown.
C5_Witness ==
    /\ rpc = "done" /\ attempts = DefaultAttempts
    /\ ret.outcome = "thrown" /\ NumCalls(ret) = DefaultAttempts
    /\ ret.value = Err(500, "")
    /\ Len(ret.events) = 7
    /\ ret.events[2].ms = 300 /\ ret.events[4].ms = 600
    /\ ret.events[6].ms = 1200

(***************************************************************************)
(* The index build.                                                        *)
(***************************************************************************)
EMBED_MODEL == "text-embedding-3-large"
\* The batch size: 64 in build-index.ts 48 and by default in indexer.ts 40,
\* taken small here so that a corpus of MaxChunks chunks spans several batches.
BATCH == 2
MaxFiles == 2
MaxChunks == 4
\* number of write(2) calls one writeFile needs for a serialized index
Pieces == 2

Min(a, b) == IF a <= b THEN a ELSE b

RECURSIVE Sum(_)
Sum(s) == IF s = <<>> THEN 0 ELSE s[1] + Sum(Tail(s))

\* Paths are <<stem, extension>>.
Path(stem, ext) == [stem |-> stem, ext |-> ext]
Exts == {".json", ".JSON", ".idx", ".tmp.json"}
Paths == {Path("index", e) : e \in Exts}
IndexFiles == {Path("index", e) : e \in {".json", ".JSON", ".idx"}}

\* /\.json$/i
MatchesJsonSuffix(p) == p.ext \in {".json", ".JSON"}

\* build-index.ts 323: INDEX_FILE.replace(/\.json$/i, ".tmp.json")
TmpPath(p) == IF MatchesJsonSuffix(p) THEN Path(p.stem, ".tmp.json") ELSE p

\* Texts are named by <<file, order>>.
UndefinedText == <<-1, -1>>
SurplusText == <<-2, -2>>
OldText == <<-3, -3>>

\* length of the vectors the embedding model returns
EmbedDim == 2

Embedding(t) == [of |-> t, normed |-> FALSE, len |-> EmbedDim]
\* build-index.ts 218-221
l2(v) == [v EXCEPT !.normed = TRUE]

\* The vectors of a response to `inputs`: data[j] embeds inputs[j].
ServiceData(reply, inputs) ==
    LET n == Len(inputs)
        exact == [j \in 1..n |-> Embedding(inputs[j])]
    IN CASE reply.kind = "exact" -> exact
         [] reply.kind = "short" -> SubSeq(exact, 1, n - 1)
         [] reply.kind = "long" -> Append(exact, Embedding(SurplusText))
         [] reply.kind = "ragged" ->
                [exact EXCEPT ![n] = [@ EXCEPT !.len = EmbedDim + 1]]
         [] OTHER -> <<>>

\* The chunks file f yields, in order (chunkStructured, then main's filter).
FileChunks(fl, f) == [k \in 1..fl[f] |-> <<f, k - 1>>]

RECURSIVE ChunksFrom(_, _)
ChunksFrom(fl, f) ==
    IF f > Len(fl) THEN <<>> ELSE FileChunks(fl, f) \o ChunksFrom(fl, f + 1)

AllChunks(fl) == ChunksFrom(fl, 1)

\* A file listFiles found: file f lies in its own directory, so two files
\* may have one basename.  kind "text" is .txt/.md/.csv, "binary" is
\* .pdf/.docx/.pptx; ok tells whether reading and extraction succeed.
FileNames ==
    {nm \in [base : {"readme", "notes"}, kind : {"text", "binary"},
             ok : BOOLEAN] : nm.kind = "binary" => ~nm.ok}

\* loaders.ts 23-36: readTextGeneric throws what fs.readFile throws for a
\* text file; readPdf, readDocx and readPptx catch and return "".
ReadThrows(nm) == nm.kind = "text" /\ ~nm.ok

\* main: out (dim: vectors[0]?.length ?? 0); buildIndexWeb: index
IndexOf(m, cs, vs) ==
    [model |-> m, chunks |-> cs, vectors |-> vs,
     dim |-> IF vs = <<>> THEN 0 ELSE vs[1].len]
NoIndex == IndexOf("", <<>>, <<>>)
OldIndex == IndexOf(EMBED_MODEL, <<OldText>>, <<l2(Embedding(OldText))>>)

Absent == [exists |-> FALSE, data |-> NoIndex, written |-> 0]
Complete(ix) == [exists |-> TRUE, data |-> ix, written |-> Pieces]
NotRead == [exists |-> FALSE, data |-> NoIndex, written |-> -1]

Layouts ==
    {fl \in UNION {[1..n -> 0..MaxChunks] : n \in 0..MaxFiles} :
        Sum(fl) <= MaxChunks}

BuildReplies ==
    Responses \cup {Err(429, "rate_limit_exceeded"), Err(400, "bad_request")}

\* What the service answers to the calls of one embedWithRetry run: replies
\* to calls that are never made (after a response or an error that is not
\* retried) are left out of the choice.
BuildScripts ==
    {sc \in [1..DefaultAttempts -> BuildReplies] :
        \A k \in 1..DefaultAttempts :
            sc[k] # Err(429, "rate_limit_exceeded") =>
                \A j \in (k + 1)..DefaultAttempts : sc[j] = Resp("exact")}

BuildIdle ==
    /\ builder = "none" /\ INDEX_FILE = Path("", "") /\ files = <<>>
    /\ names = <<>>
    /\ pc = "idle"
    /\ chunks = <<>> /\ vectors = <<>> /\ itemTexts = <<>> /\ itemIds = <<>>
    /\ cursor = <<0, 0>>
    /\ returned = 0 /\ embedThrew = FALSE /\ err = ""
    /\ fsys = [p \in Paths |-> Absent] /\ fsys0 = fsys
    /\ wfile = Path("", "") /\ lastRead = NotRead

\* A file that cannot be read yields no chunk.
BuildInit ==
    /\ builder \in {"main", "web"}
    /\ INDEX_FILE \in IndexFiles
    /\ files \in Layouts
    /\ names \in {nm \in [1..Len(files) -> FileNames] :
                    /\ \A f \in 1..Len(files) : ~nm[f].ok => files[f] = 0
                    /\ Len(files) >= 1 => nm[1].base = "readme"}
    /\ pc = "start"
    /\ chunks = <<>> /\ vectors = <<>> /\ itemTexts = <<>> /\ itemIds = <<>>
    /\ cursor = <<0, 0>>
    /\ returned = 0 /\ embedThrew = FALSE /\ err = ""
    /\ \E prev \in {Absent, Complete(OldIndex)} :
          fsys = [p \in Paths |-> IF p = INDEX_FILE THEN prev ELSE Absent]
    /\ fsys0 = fsys
    /\ wfile = Path("", "") /\ lastRead = NotRead

\* throw new Error(...), ending the build (main().catch: process.exit(1))
Fail(e) == pc' = "failed" /\ err' = e

\* build-index.ts 254-287: list the files, read and chunk each, collect.
MainCollect_NoEmptyCheck ==
    /\ builder = "main" /\ pc = "start"
    /\ IF \E f \in 1..Len(files) : ReadThrows(names[f])
       THEN Fail("read") /\ UNCHANGED chunks
       ELSE /\ chunks' = AllChunks(files)
            /\ pc' = "embed"
            /\ UNCHANGED err
    /\ UNCHANGED <<builder, INDEX_FILE, files, names, vectors, itemTexts,
                   itemIds, cursor, returned, embedThrew, fsys, fsys0, wfile,
                   lastRead>>
    /\ UNCHANGED notBuild

MainCollect ==
    /\ builder = "main" /\ pc = "start"
    /\ IF Len(files) = 0
       THEN Fail("no-files") /\ UNCHANGED chunks
       ELSE IF \E f \in 1..Len(files) : ReadThrows(names[f])
       THEN Fail("read") /\ UNCHANGED chunks
       ELSE /\ chunks' = AllChunks(files)
            /\ IF Len(chunks') = 0
               THEN Fail("no-chunks")
               ELSE pc' = "embed" /\ UNCHANGED err
    /\ UNCHANGED <<builder, INDEX_FILE, files, names, vectors, itemTexts,
                   itemIds, cursor, returned, embedThrew, fsys, fsys0, wfile,
                   lastRead>>
    /\ UNCHANGED notBuild

\* build-index.ts 293-302: one turn of the batch loop.
MainEmbedBatch ==
    /\ builder = "main" /\ pc = "embed"
    /\ cursor[2] < Len(chunks)
    /\ LET i == cursor[2]
           batch == SubSeq(chunks, i + 1, Min(i + BATCH, Len(chunks)))
       IN \E sc \in BuildScripts :
            LET resp == embedWithRetry(DefaultAttempts, sc)
                data == ServiceData(resp.value, batch)
            IN IF resp.outcome = "returned"
               THEN /\ vectors' = vectors \o [j \in DOMAIN data |-> l2(data[j])]
                    /\ returned' = returned + Len(data)
                    /\ cursor' = <<0, i + BATCH>>
                    /\ UNCHANGED <<pc, embedThrew, err>>
               ELSE /\ Fail("embed") /\ embedThrew' = TRUE
                    /\ UNCHANGED <<vectors, returned, cursor>>
    /\ UNCHANGED <<builder, INDEX_FILE, files, names, chunks, itemTexts,
                   itemIds, fsys, fsys0, wfile, lastRead>>
    /\ UNCHANGED notBuild

\* build-index.ts 305-324: the 1:1 assertion, mkdir, then writeFile(tmp, ...)
\* opens (creates or truncates) the temporary path.
MainAssertAndOpen ==
    /\ builder = "main" /\ pc = "embed"
    /\ cursor[2] >= Len(chunks)
    /\ IF Len(vectors) # Len(chunks)
       THEN Fail("mismatch") /\ UNCHANGED <<fsys, wfile>>
       ELSE LET tmp == TmpPath(INDEX_FILE)
                out == IndexOf(EMBED_MODEL, chunks, vectors)
            IN /\ fsys' = [fsys EXCEPT ![tmp] =
                              [exists |-> TRUE, data |-> out, written |-> 0]]
               /\ wfile' = tmp
               /\ pc' = "write"
               /\ UNCHANGED err
    /\ UNCHANGED <<builder, INDEX_FILE, files, names, chunks, vectors,
                   itemTexts, itemIds, cursor, returned, embedThrew, fsys0,
                   lastRead>>
    /\ UNCHANGED notBuild

\* indexer.ts 33-34
WebListFiles ==
    /\ builder = "web" /\ pc = "start"
    /\ IF Len(files) = 0
       THEN Fail("no-files") /\ UNCHANGED cursor
       ELSE pc' = "embed" /\ cursor' = <<1, 0>> /\ UNCHANGED err
    /\ UNCHANGED <<builder, INDEX_FILE, files, names, chunks, vectors,
                   itemTexts, itemIds, returned, embedThrew, fsys, fsys0,
                   wfile, lastRead>>
    /\ UNCHANGED notBuild

\* indexer.ts 43-46: file f is done with (its text was read and chunked, an
\* empty one skipped; a read that throws ends the build); on to the next.
WebNextFile ==
    /\ builder = "web" /\ pc = "embed"
    /\ cursor[1] <= Len(files)
    /\ cursor[2] >= files[cursor[1]]
    /\ IF ReadThrows(names[cursor[1]])
       THEN Fail("read") /\ UNCHANGED <<cursor, chunks>>
       ELSE /\ cursor' = <<cursor[1] + 1, 0>>
            /\ chunks' = chunks \o FileChunks(files, cursor[1])
            /\ UNCHANGED <<pc, err>>
    /\ UNCHANGED <<builder, INDEX_FILE, files, names, vectors, itemTexts,
                   itemIds, returned, embedThrew, fsys, fsys0, wfile,
                   lastRead>>
    /\ UNCHANGED notBuild

\* indexer.ts 50-67: one batch of the current file; the call is not retried.
\* Item j of the response gets the id sha1(f#(i + j)) and the text slice[j].
WebEmbedBatch_Swallow ==
    /\ builder = "web" /\ pc = "embed"
    /\ cursor[1] <= Len(files)
    /\ cursor[2] < files[cursor[1]]
    /\ LET f == cursor[1]
           i == cursor[2]
           fc == FileChunks(files, f)
           slice == SubSeq(fc, i + 1, Min(i + BATCH, Len(fc)))
       IN \E reply \in BuildReplies :
            LET data == ServiceData(reply, slice)
            IN IF reply.kind # "error"
               THEN /\ vectors' = vectors \o data
                    /\ itemTexts' = itemTexts \o
                          [j \in 1..Len(data) |->
                              IF j <= Len(slice) THEN slice[j]
                                                 ELSE UndefinedText]
                    /\ itemIds' = itemIds \o
                          [j \in 1..Len(data) |-> <<"sha1", f, i + j - 1>>]
                    /\ returned' = returned + Len(data)
                    /\ cursor' = <<f, i + BATCH>>
                    /\ UNCHANGED <<pc, embedThrew, err>>
               ELSE /\ embedThrew' = TRUE
                    /\ cursor' = <<f, i + BATCH>>
                    /\ UNCHANGED <<pc, vectors, itemTexts, itemIds, returned,
                                   err>>
    /\ UNCHANGED <<builder, INDEX_FILE, files, names, chunks, fsys, fsys0,
                   wfile, lastRead>>
    /\ UNCHANGED notBuild

WebEmbedBatch ==
    /\ builder = "web" /\ pc = "embed"
    /\ cursor[1] <= Len(files)
    /\ cursor[2] < files[cursor[1]]
    /\ LET f == cursor[1]
           i == cursor[2]
           fc == FileChunks(files, f)
           slice == SubSeq(fc, i + 1, Min(i + BATCH, Len(fc)))
       IN \E reply \in BuildReplies :
            LET data == ServiceData(reply, slice)
            IN IF reply.kind # "error"
               THEN /\ vectors' = vectors \o data
                    /\ itemTexts' = itemTexts \o
                          [j \in 1..Len(data) |->
                              IF j <= Len(slice) THEN slice[j]
                                                 ELSE UndefinedText]
                    /\ itemIds' = itemIds \o
                          [j \in 1..Len(data) |-> <<"sha1", f, i + j - 1>>]
                    /\ returned' = returned + Len(data)
                    /\ cursor' = <<f, i + BATCH>>
                    /\ UNCHANGED <<pc, embedThrew, err>>
               ELSE /\ Fail("embed") /\ embedThrew' = TRUE
                    /\ UNCHANGED <<vectors, itemTexts, itemIds, returned,
                                   cursor>>
    /\ UNCHANGED <<builder, INDEX_FILE, files, names, chunks, fsys, fsys0,
                   wfile, lastRead>>
    /\ UNCHANGED notBuild

\* indexer.ts 70-80: the emptiness test, mkdir, then writeFile(outFile, ...)
\* opens (creates or truncates) the target itself.
WebCheckAndOpen ==
    /\ builder = "web" /\ pc = "embed"
    /\ cursor[1] > Len(files)
    /\ IF Len(vectors) = 0
       THEN Fail("no-chunks") /\ UNCHANGED <<fsys, wfile>>
       ELSE LET ix == IndexOf("", itemTexts, vectors)
            IN /\ fsys' = [fsys EXCEPT ![INDEX_FILE] =
                              [exists |-> TRUE, data |-> ix, written |-> 0]]
               /\ wfile' = INDEX_FILE
               /\ pc' = "write"
               /\ UNCHANGED err
    /\ UNCHANGED <<builder, INDEX_FILE, files, names, chunks, vectors,
                   itemTexts, itemIds, cursor, returned, embedThrew, fsys0,
                   lastRead>>
    /\ UNCHANGED notBuild

\* fs.writeFile: the data reaches the open file piece by piece.
WritePiece ==
    /\ pc = "write"
    /\ fsys[wfile].written < Pieces
    /\ fsys' = [fsys EXCEPT ![wfile].written = @ + 1]
    /\ UNCHANGED <<builder, INDEX_FILE, files, names, pc, chunks, vectors,
                   itemTexts, itemIds, cursor, returned, embedThrew, err,
                   fsys0, wfile, lastRead>>
    /\ UNCHANGED notBuild

\* writeFile resolves; build-index.ts 325 then renames tmp over the target
\* (rename(2) replaces the target in one step; onto itself it does nothing).
WriteDone ==
    /\ pc = "write"
    /\ fsys[wfile].written = Pieces
    /\ IF builder = "main" /\ wfile # INDEX_FILE
       THEN fsys' = [fsys EXCEPT ![INDEX_FILE] = fsys[wfile], ![wfile] = Absent]
       ELSE UNCHANGED fsys
    /\ pc' = "done"
    /\ UNCHANGED <<builder, INDEX_FILE, files, names, chunks, vectors,
                   itemTexts, itemIds, cursor, returned, embedThrew, err,
                   fsys0, wfile, lastRead>>
    /\ UNCHANGED notBuild

\* A reader of the target path (loadIndex, getIndex) at any moment.
ReadTarget ==
    /\ pc \in {"start", "embed", "write", "done", "failed"}
    /\ lastRead' = fsys[INDEX_FILE]
    /\ UNCHANGED <<builder, INDEX_FILE, files, names, pc, chunks, vectors,
                   itemTexts, itemIds, cursor, returned, embedThrew, err, fsys,
                   fsys0, wfile>>
    /\ UNCHANGED notBuild

BuildNext ==
    \/ MainCollect
    \/ MainEmbedBatch
    \/ MainAssertAndOpen
    \/ WebListFiles
    \/ WebNextFile
    \/ WebEmbedBatch
    \/ WebCheckAndOpen
    \/ WritePiece
    \/ WriteDone
    \/ ReadTarget

\* The index this build serializes.
BuiltIndex ==
    IF builder = "main" THEN IndexOf(EMBED_MODEL, chunks, vectors)
                        ELSE IndexOf("", itemTexts, vectors)

(***************************************************************************)
(* C1: every read of the target path, at any moment of a build, returns    *)
(* the complete previous content or the complete new index, never a        *)
(* partially written file.                                                 *)
(***************************************************************************)
C1_ReaderSeesOldOrNew ==
    \/ lastRead = NotRead
    \/ lastRead = fsys0[INDEX_FILE]
    \/ lastRead = Complete(BuiltIndex)

(***************************************************************************)
(* C28: in the build script the temporary path differs from INDEX_FILE,    *)
(* whatever INDEX_FILE is configured, and the target path is never the     *)
(* path writeFile has open.                                                *)
(***************************************************************************)
C28_TmpDiffersFromTarget ==
    (builder = "main" /\ pc \in {"write", "done"}) =>
        /\ TmpPath(INDEX_FILE) # INDEX_FILE
        /\ wfile # INDEX_FILE

(***************************************************************************)
(* C2: a written index has as many vectors as chunks, vectors[i] being the *)
(* embedding returned for chunks[i].text; a build whose service returned a *)
(* number of vectors different from the number of chunks writes nothing.   *)
(***************************************************************************)
C2_VectorsMatchChunks ==
    /\ pc = "done" =>
          LET ix == fsys[INDEX_FILE].data
          IN /\ Len(ix.vectors) = Len(ix.chunks)
             /\ \A i \in 1..Len(ix.vectors) : ix.vectors[i].of = ix.chunks[i]
    /\ pc \in {"write", "done"} => returned = Len(AllChunks(files))

(***************************************************************************)
(* C4: once an embedding call of a build has ended in a throw (a           *)
(* non-retriable error, or retries exhausted), the build has failed and    *)
(* every path is as it was when the build started, whatever the number of  *)
(* batches that had succeeded before.                                      *)
(***************************************************************************)
C4_EmbedFailureWritesNothing ==
    embedThrew => pc = "failed" /\ fsys = fsys0

\* A batch fails after an earlier batch succeeded, an index being in place.
C4_Witness ==
    /\ embedThrew /\ pc = "failed"
    /\ Len(vectors) >= BATCH
    /\ fsys0[INDEX_FILE] = Complete(OldIndex)
    /\ fsys[INDEX_FILE] = Complete(OldIndex)

\* build-index.ts 125: id: `${srcName}::${order}`, srcName the basename
ChunkIdBuild(base, order) == <<base, order>>

\* The id fields of the index this build serializes.
BuiltIds ==
    IF builder = "main"
    THEN [k \in 1..Len(chunks) |->
            ChunkIdBuild(names[chunks[k][1]].base, chunks[k][2])]
    ELSE itemIds

(***************************************************************************)
(* C13: in a built index no two chunks have the same id, whatever files    *)
(* were found, files of one basename in different directories included.    *)
(***************************************************************************)
C13_IdsUnique ==
    pc = "done" =>
        \A j, k \in 1..Len(BuiltIds) : BuiltIds[j] = BuiltIds[k] => j = k

(***************************************************************************)
(* C16: a build in which a returned vector has another length than the     *)
(* first one fails and writes nothing: every vector of an index being      *)
(* written or written has length dim.                                      *)
(***************************************************************************)
C16_VectorsHaveDim ==
    pc \in {"write", "done"} =>
        \A i \in 1..Len(BuiltIndex.vectors) :
            BuiltIndex.vectors[i].len = BuiltIndex.dim

NoChunkSurvives == Len(files) = 0 \/ Sum(files) = 0

(***************************************************************************)
(* C17: when no file is found, or no chunk survives over the whole corpus, *)
(* the build never opens a file for writing: it ends failed, with the      *)
(* error naming the cause, and every path is as it was.                    *)
(***************************************************************************)
C17_EmptyCorpusFails ==
    NoChunkSurvives =>
        /\ fsys = fsys0
        /\ pc \in {"start", "embed", "failed"}
        /\ pc = "failed" =>
              err \in (IF Len(files) = 0 THEN {"no-files"}
                                         ELSE {"no-chunks", "read"})
        /\ (pc = "embed" /\ cursor[1] > Len(files)) => ENABLED WebCheckAndOpen

\* Files were found, none yields a chunk, and an index was in place.
C17_Witness ==
    /\ pc = "failed" /\ err = "no-chunks"
    /\ Len(files) = MaxFiles
    /\ \E f \in 1..Len(files) : names[f].kind = "binary" /\ ~names[f].ok
    /\ \E f \in 1..Len(files) : names[f].ok
    /\ fsys[INDEX_FILE] = Complete(OldIndex)

(***************************************************************************)
(* C18: a document whose reading or extraction fails is skipped: no build  *)
(* ends because one document could not be read.                            *)
(***************************************************************************)
C18_ReadFailureSkipsDocument ==
    pc = "failed" => err # "read"

(***************************************************************************)
(* Loading the index file.  The parsed file is described by what the       *)
(* loaders look at: chunks.length, vectors.length, vectors[0].length, dim. *)
(***************************************************************************)
MaxLoad == 2
IndexDim == 2

IdxFile(n, m, v, d) == [chunks |-> n, vectors |-> m, v0 |-> v, dim |-> d]
\* null: nothing memoized
Null == IdxFile(-1, -1, -1, -1)
\* a missing file, or one JSON.parse throws on
Unreadable == IdxFile(-2, -2, -2, -2)

FileContents ==
    {Unreadable} \cup
    {x \in [chunks : 0..MaxLoad, vectors : 0..MaxLoad,
            v0 : {0, IndexDim, IndexDim + 1}, dim : {IndexDim}] :
        (x.vectors = 0) = (x.v0 = 0)}

\* search.ts 53: the indexFilePath argument; route.ts 8: INDEX_FILE
LoadPaths == {"index.json", "other.json"}
RouteIndexFile == "index.json"

Loaded(memo, x) == [memo |-> memo, outcome |-> "returned", value |-> x]
Rejected(memo) == [memo |-> memo, outcome |-> "thrown", value |-> Null]
NoLoad == [outcome |-> "none", value |-> Null, path |-> ""]

\* search.ts 53-67
loadIndex(memo, parsed) ==
    IF memo # Null THEN Loaded(memo, memo)
    ELSE IF parsed = Unreadable THEN Rejected(memo)
    ELSE IF parsed.vectors = 0 \/ parsed.chunks = 0 THEN Rejected(memo)
    ELSE IF parsed.v0 # parsed.dim THEN Rejected(memo)
    ELSE Loaded(parsed, parsed)

\* route.ts 16-23: `cache` is assigned before the test.
getIndex(c, parsed) ==
    IF c # Null THEN Loaded(c, c)
    ELSE IF parsed = Unreadable THEN Rejected(c)
    ELSE IF parsed.chunks = 0 \/ parsed.vectors = 0 THEN Rejected(parsed)
    ELSE Loaded(parsed, parsed)

LoadIdle ==
    /\ loader = "none" /\ disk = <<>> /\ memoIndex = Null /\ cache = Null
    /\ lret = NoLoad

LoadInit ==
    /\ loader \in {"loadIndex", "getIndex"}
    /\ disk \in [LoadPaths -> FileContents]
    \* getIndex reads RouteIndexFile only: the other path plays no part
    /\ loader = "getIndex" => disk["other.json"] = disk[RouteIndexFile]
    /\ memoIndex = Null /\ cache = Null
    /\ lret = NoLoad

CallLoadIndex ==
    /\ loader = "loadIndex"
    /\ \E p \in LoadPaths :
          LET r == loadIndex(memoIndex, disk[p])
          IN /\ memoIndex' = r.memo
             /\ lret' = [outcome |-> r.outcome, value |-> r.value, path |-> p]
    /\ UNCHANGED <<loader, disk, cache>>
    /\ UNCHANGED notLoad

CallGetIndex ==
    /\ loader = "getIndex"
    /\ LET r == getIndex(cache, disk[RouteIndexFile])
       IN /\ cache' = r.memo
          /\ lret' = [outcome |-> r.outcome, value |-> r.value,
                      path |-> RouteIndexFile]
    /\ UNCHANGED <<loader, disk, memoIndex>>
    /\ UNCHANGED notLoad

\* An index rebuild, or anything else that replaces the file.
ReplaceIndexFile ==
    /\ loader # "none"
    /\ \E p \in IF loader = "getIndex" THEN {RouteIndexFile} ELSE LoadPaths :
          \E c \in FileContents \ {disk[p]} : disk' = [disk EXCEPT ![p] = c]
    /\ UNCHANGED <<loader, memoIndex, cache, lret>>
    /\ UNCHANGED notLoad

LoadNext == CallLoadIndex \/ CallGetIndex \/ ReplaceIndexFile

(***************************************************************************)
(* C3: a load returns an index only if chunks.length = vectors.length,     *)
(* vectors[0].length = dim and the index is not empty; otherwise it        *)
(* rejects.                                                                *)
(***************************************************************************)
WellFormed(x) == x.chunks > 0 /\ x.chunks = x.vectors /\ x.v0 = x.dim
\* what loadIndex validates
WellFormedAtLoad(x) == x.chunks > 0 /\ x.vectors > 0 /\ x.v0 = x.dim

C3_LoadRejectsMalformed ==
    lret.outcome = "returned" => WellFormed(lret.value)

(***************************************************************************)
(* C30: every loadIndex(p) call that returns, returns the content the file *)
(* at p has at the call, which is well-formed; a call that throws leaves   *)
(* memoIndex as it was.                                                    *)
(***************************************************************************)
LoadIndexCalled ==
    loader = "loadIndex" /\ disk' = disk /\ lret'.outcome # "none"

C30_LoadReturnsFileAtPath ==
    [][LoadIndexCalled =>
          /\ lret'.outcome = "returned" =>
                lret'.value = disk[lret'.path] /\ WellFormedAtLoad(lret'.value)
          /\ lret'.outcome = "thrown" => memoIndex' = memoIndex]_vars

(***************************************************************************)
(* C25: over any sequence of getIndex calls, getIndex returns an index     *)
(* only if it has chunks and vectors: content that a call rejected is not  *)
(* returned by a later call.                                               *)
(***************************************************************************)
C25_GetIndexNeverReturnsRejected ==
    (loader = "getIndex" /\ lret.outcome = "returned") =>
        lret.value.chunks > 0 /\ lret.value.vectors > 0

(***************************************************************************)
(* retrieve (retrieval.ts).  Positions are 0-based as in the source.       *)
(* Scores are kept exact in integers: vectors have integer components, a   *)
(* fused score is held in tenths (alpha = 0.7) and an MMR score in         *)
(* hundredths (lambda = 0.6).  kwNorm[i] stands for tanh(0.5 * kwScore) of *)
(* chunk i, which depends on the question and the chunk texts only.        *)
(***************************************************************************)
MaxIndex == 4
MaxDocs == 2
MaxTopK == 2
MaxWindow == 2
AlphaTenths == 7
LambdaTenths == 6
MmrCandidates == 40
Slack == 2

Vecs == {<<1, 0>>, <<0, 1>>}
QueryVecs == {<<1, 0>>, <<1, 1>>}

\* retrieval.ts 38-42
RECURSIVE DotFrom(_, _, _)
DotFrom(a, b, i) ==
    IF i > Len(a) THEN 0 ELSE a[i] * b[i] + DotFrom(a, b, i + 1)
dot(a, b) == DotFrom(a, b, 1)

Max(a, b) == IF a >= b THEN a ELSE b

\* An index as main builds it: the chunks of one document after those of
\* the other, each document's chunks in order 0, 1, ...
Compositions ==
    {d \in UNION {[1..k -> 1..MaxIndex] : k \in 0..MaxDocs} :
        Sum(d) <= MaxIndex}

RECURSIVE DocOf(_, _, _)
DocOf(d, j, i) == IF i < d[j] THEN <<j, i>> ELSE DocOf(d, j + 1, i - d[j])

ChunksOfLayout(d) ==
    [i \in 0..(Sum(d) - 1) |->
        [source_path |-> DocOf(d, 1, i)[1], order |-> DocOf(d, 1, i)[2]]]

\* retrieval.ts 100
Fused(sem, kwn) == AlphaTenths * sem + (10 - AlphaTenths) * kwn

\* retrieval.ts 94-102
Scored(ix, q, kwn) ==
    [k \in 1..ix.n |->
        [idx |-> k - 1, score |-> Fused(dot(q, ix.vectors[k - 1]), kwn[k - 1])]]

\* Array.prototype.sort with (a, b) => b.score - a.score: stable, descending
RECURSIVE InsertDesc_TiesReversed(_, _)
InsertDesc_TiesReversed(sorted, x) ==
    IF sorted = <<>> THEN <<x>>
    ELSE IF sorted[1].score > x.score
         THEN <<sorted[1]>> \o InsertDesc_TiesReversed(Tail(sorted), x)
         ELSE <<x>> \o sorted
RECURSIVE InsertDesc(_, _)
InsertDesc(sorted, x) ==
    IF sorted = <<>> THEN <<x>>
    ELSE IF sorted[1].score >= x.score
         THEN <<sorted[1]>> \o InsertDesc(Tail(sorted), x)
         ELSE <<x>> \o sorted

RECURSIVE SortDescFrom(_, _, _)
SortDescFrom(s, k, acc) ==
    IF k > Len(s) THEN acc ELSE SortDescFrom(s, k + 1, InsertDesc(acc, s[k]))

SortDesc(s) == SortDescFrom(s, 1, <<>>)

Slice(s, n) == SubSeq(s, 1, Min(n, Len(s)))

\* items.find((it) => it.idx === i)!.score
RECURSIVE ScoreOfFrom(_, _, _)
ScoreOfFrom(items, i, k) ==
    IF items[k].idx = i THEN items[k].score ELSE ScoreOfFrom(items, i, k + 1)
ScoreOf(items, i) == ScoreOfFrom(items, i, 1)

\* retrieval.ts 58-61
RECURSIVE DivFrom(_, _, _, _, _)
DivFrom(vs, i, selected, k, div) ==
    IF k > Len(selected) THEN div
    ELSE DivFrom(vs, i, selected, k + 1, Max(div, dot(vs[i], vs[selected[k]])))

\* retrieval.ts 62
MmrScore_RelevanceOnly(rel, div) == LambdaTenths * rel
MmrScore(rel, div) == LambdaTenths * rel - (10 - LambdaTenths) * 10 * div

\* retrieval.ts 54-67: the scan of the candidates, in insertion order; a
\* bestIdx of -1 is the state in which best is -Infinity.
RECURSIVE ScanBest_LastWins(_, _, _, _, _, _, _)
ScanBest_LastWins(items, vs, selected, cands, k, best, bestIdx) ==
    IF k > Len(cands) THEN bestIdx
    ELSE LET i == cands[k]
             m == MmrScore(ScoreOf(items, i), DivFrom(vs, i, selected, 1, 0))
         IN IF bestIdx = -1 \/ m >= best
            THEN ScanBest_LastWins(items, vs, selected, cands, k + 1, m, i)
            ELSE ScanBest_LastWins(items, vs, selected, cands, k + 1, best,
                                   bestIdx)
RECURSIVE ScanBest(_, _, _, _, _, _, _)
ScanBest(items, vs, selected, cands, k, best, bestIdx) ==
    IF k > Len(cands) THEN bestIdx
    ELSE LET i == cands[k]
             m == MmrScore(ScoreOf(items, i), DivFrom(vs, i, selected, 1, 0))
         IN IF bestIdx = -1 \/ m > best
            THEN ScanBest(items, vs, selected, cands, k + 1, m, i)
            ELSE ScanBest(items, vs, selected, cands, k + 1, best, bestIdx)

\* retrieval.ts 53-72
RECURSIVE MmrLoop(_, _, _, _, _)
MmrLoop(items, vs, K, selected, cands) ==
    IF ~(Len(selected) < K /\ Len(cands) > 0) THEN selected
    ELSE LET bestIdx == ScanBest(items, vs, selected, cands, 1, 0, -1)
         IN IF bestIdx = -1 THEN selected
            ELSE MmrLoop(items, vs, K, Append(selected, bestIdx),
                         SelectSeq(cands, LAMBDA c : c # bestIdx))

\* retrieval.ts 45-73
mmr(items, vs, K) ==
    MmrLoop(items, vs, K, <<>>, [k \in 1..Len(items) |-> items[k].idx])

\* Set.prototype.add on a set held in insertion order
SetAdd(s, x) == IF x \in Range(s) THEN s ELSE Append(s, x)

\* retrieval.ts 113-115, for one selected i and one w: the members added and
\* the positions of index.chunks read.
AddNeighbors_AnyDocument(ix, acc, i, w) ==
    LET left == i - w
        right == i + w
        a1 == IF left >= 0 THEN SetAdd(acc.members, left) ELSE acc.members
        r1 == IF left >= 0 THEN acc.read \cup {left, i} ELSE acc.read
        a2 == IF right < ix.n THEN SetAdd(a1, right) ELSE a1
        r2 == IF right < ix.n THEN r1 \cup {right, i} ELSE r1
    IN [members |-> a2, read |-> r2]
AddNeighbors(ix, acc, i, w) ==
    LET left == i - w
        right == i + w
        okL == left >= 0
        a1 == IF okL /\ ix.chunks[left].source_path = ix.chunks[i].source_path
              THEN SetAdd(acc.members, left) ELSE acc.members
        r1 == IF okL THEN acc.read \cup {left, i} ELSE acc.read
        okR == right < ix.n
        a2 == IF okR /\ ix.chunks[right].source_path = ix.chunks[i].source_path
              THEN SetAdd(a1, right) ELSE a1
        r2 == IF okR THEN r1 \cup {right, i} ELSE r1
    IN [members |-> a2, read |-> r2]

\* retrieval.ts 112-116
RECURSIVE WindowLoop_ExclusiveBound(_, _, _, _, _)
WindowLoop_ExclusiveBound(ix, acc, i, w, win) ==
    IF w >= win THEN acc
    ELSE WindowLoop_ExclusiveBound(ix, AddNeighbors(ix, acc, i, w), i, w + 1,
                                   win)
RECURSIVE WindowLoop(_, _, _, _, _)
WindowLoop(ix, acc, i, w, win) ==
    IF w > win THEN acc
    ELSE WindowLoop(ix, AddNeighbors(ix, acc, i, w), i, w + 1, win)

\* retrieval.ts 109-117
RECURSIVE ExpandFrom(_, _, _, _, _)
ExpandFrom(ix, pk, k, win, acc) ==
    IF k > Len(pk) THEN acc
    ELSE ExpandFrom(ix, pk, k + 1, win,
            WindowLoop(ix, [acc EXCEPT !.members = SetAdd(@, pk[k])],
                       pk[k], 1, win))

NeighborExpand(ix, pk, win) ==
    ExpandFrom(ix, pk, 1, win, [members |-> <<>>, read |-> {}])

\* retrieval.ts 119-123
FinalIdx_WiderSlice(sc, members, K) ==
    LET withScore == [k \in 1..Len(members) |->
                        [idx |-> members[k], score |-> ScoreOf(sc, members[k])]]
    IN Slice(SortDesc(withScore), K + Slack + 1)
FinalIdx(sc, members, K) ==
    LET withScore == [k \in 1..Len(members) |->
                        [idx |-> members[k], score |-> ScoreOf(sc, members[k])]]
    IN Slice(SortDesc(withScore), K + Slack)

\* retrieval.ts 125-129
Ranked(ix, sc, fin) ==
    [k \in 1..Len(fin) |->
        [rank |-> 0, score |-> ScoreOf(sc, fin[k].idx), idx |-> fin[k].idx,
         source_path |-> ix.chunks[fin[k].idx].source_path,
         order |-> ix.chunks[fin[k].idx].order]]

NoVectorIndex == [n |-> 0, chunks |-> <<>>, vectors |-> <<>>]

RetrieveIdle ==
    /\ index = NoVectorIndex /\ kwNorm = <<>> /\ qv = <<>> /\ topK = 0
    /\ neighborWindow = 0 /\ qpc = "idle" /\ scored = <<>> /\ picked = <<>>
    /\ accessed = {} /\ result = <<>>

RetrieveInit ==
    /\ \E d \in Compositions :
         \E vs \in [0..(Sum(d) - 1) -> Vecs] :
            index = [n |-> Sum(d), chunks |-> ChunksOfLayout(d), vectors |-> vs]
    /\ kwNorm \in [0..(index.n - 1) -> 0..1]
    /\ qv \in QueryVecs
    /\ topK \in 0..MaxTopK
    /\ neighborWindow \in 0..MaxWindow
    /\ qpc = "ready"
    /\ scored = <<>> /\ picked = <<>> /\ accessed = {} /\ result = <<>>

\* retrieval.ts 84-129, the embedding call having answered with qv
Retrieve ==
    /\ qpc = "ready"
    /\ LET sc == SortDesc(Scored(index, qv, kwNorm))
           pk == mmr(Slice(sc, MmrCandidates), index.vectors, topK)
           nb == NeighborExpand(index, pk, neighborWindow)
       IN /\ scored' = sc
          /\ picked' = pk
          /\ accessed' = nb.read
          /\ result' = Ranked(index, sc, FinalIdx(sc, nb.members, topK))
    /\ qpc' = "done"
    /\ UNCHANGED <<index, kwNorm, qv, topK, neighborWindow>>
    /\ UNCHANGED notRetrieve

\* retrieval.ts 84-87: the embedding call throws, and so does retrieve
RetrieveEmbedFails_KeywordFallback ==
    /\ qpc = "ready"
    /\ qpc' = "failed"
    /\ scored' = SortDesc([k \in 1..index.n |->
                    [idx |-> k - 1, score |-> Fused(0, kwNorm[k - 1])]])
    /\ result' = Ranked(index, scored', Slice(scored', topK))
    /\ UNCHANGED <<index, kwNorm, qv, topK, neighborWindow, picked, accessed>>
    /\ UNCHANGED notRetrieve
RetrieveEmbedFails ==
    /\ qpc = "ready"
    /\ qpc' = "failed"
    /\ UNCHANGED <<index, kwNorm, qv, topK, neighborWindow, scored, picked,
                   accessed, result>>
    /\ UNCHANGED notRetrieve

RetrieveNext == Retrieve \/ RetrieveEmbedFails

Abs(x) == IF x < 0 THEN -x ELSE x

ResultIdx == {result[k].idx : k \in 1..Len(result)}

(***************************************************************************)
(* C6: a returned chunk that MMR did not select lies in the document of a  *)
(* selected chunk, between 1 and neighborWindow orders away from it; the   *)
(* neighbour step reads no position below 0 or at/after len(chunks).       *)
(***************************************************************************)
C6_NeighborsSameDocument ==
    qpc = "done" =>
        /\ \A r \in ResultIdx \ Range(picked) :
              \E p \in Range(picked) :
                  /\ index.chunks[r].source_path = index.chunks[p].source_path
                  /\ Abs(index.chunks[r].order - index.chunks[p].order)
                        \in 1..neighborWindow
        /\ accessed \subseteq 0..(index.n - 1)

\* Position 0 is selected, a selected chunk is followed by a chunk of
\* another document, and a chunk that was not selected is returned.
C6_Witness ==
    /\ qpc = "done" /\ neighborWindow >= 1
    /\ ResultIdx \ Range(picked) # {}
    /\ 0 \in Range(picked)
    /\ \E p \in Range(picked) :
          /\ p + 1 < index.n
          /\ index.chunks[p + 1].source_path # index.chunks[p].source_path

(***************************************************************************)
(* C9: the k-th returned ScoredChunk (1-based) has rank k.                 *)
(***************************************************************************)
C9_RanksOneToN ==
    qpc = "done" => \A k \in 1..Len(result) : result[k].rank = k

(***************************************************************************)
(* C10: the returned sequence holds no chunk twice, has at most topK + 2   *)
(* elements, is ordered by non-increasing fused score, and each element's  *)
(* score is the fused score of its chunk from the scoring step.            *)
(***************************************************************************)
C10_ResultShape ==
    qpc = "done" =>
        /\ \A j, k \in 1..Len(result) : result[j].idx = result[k].idx => j = k
        /\ Len(result) <= topK + 2
        /\ \A k \in 1..(Len(result) - 1) : result[k].score >= result[k + 1].score
        /\ \A k \in 1..Len(result) :
              /\ result[k].idx \in 0..(index.n - 1)
              /\ result[k].score =
                    7 * dot(qv, index.vectors[result[k].idx])
                  + 3 * kwNorm[result[k].idx]
              /\ \E j \in 1..Len(scored) :
                    scored[j] = [idx |-> result[k].idx, score |-> result[k].score]

\* The union of selected and neighbour chunks exceeds topK + 2 and is cut,
\* and two returned chunks tie.
C10_Witness ==
    /\ qpc = "done" /\ topK >= 1
    /\ Len(NeighborExpand(index, picked, neighborWindow).members) > topK + 2
    /\ Len(result) = topK + 2
    /\ \E k \in 1..(Len(result) - 1) : result[k].score = result[k + 1].score
    /\ \E k \in 1..(Len(result) - 1) : result[k].score > result[k + 1].score

\* The place of chunk i in the scored list (fused-descending, stable) and in
\* the neighbour set's insertion order.
ScoredPos(i) == CHOOSE k \in 1..Len(scored) : scored[k].idx = i
MemberPos(i) ==
    LET m == NeighborExpand(index, picked, neighborWindow).members
    IN CHOOSE k \in 1..Len(m) : m[k] = i

\* The k-th selection of MMR is a candidate of the highest MMR score, and
\* the first such candidate of the scored list.
MmrTiesToFirstScored ==
    \A k \in 1..Len(picked) :
        LET sel == SubSeq(picked, 1, k - 1)
            cands == {scored[j].idx : j \in 1..Min(MmrCandidates, Len(scored))}
                        \ Range(sel)
            M(i) == MmrScore(ScoreOf(scored, i),
                             DivFrom(index.vectors, i, sel, 1, 0))
        IN /\ picked[k] \in cands
           /\ \A c \in cands :
                 \/ M(c) < M(picked[k])
                 \/ M(c) = M(picked[k]) /\ ScoredPos(picked[k]) <= ScoredPos(c)

(***************************************************************************)
(* C11 (as claimed): every tie is resolved in favour of the chunk that     *)
(* comes first in the stable fused-descending order: MMR selects the first *)
(* chunk of that order among those of the highest MMR score, and of two    *)
(* returned chunks of equal fused score the one earlier in that order is   *)
(* returned first.                                                         *)
(***************************************************************************)
C11_TiesFavourFusedOrder ==
    qpc = "done" =>
        /\ MmrTiesToFirstScored
        /\ \A a, b \in 1..Len(result) :
              (a < b /\ result[a].score = result[b].score)
                 => ScoredPos(result[a].idx) < ScoredPos(result[b].idx)

(***************************************************************************)
(* C11 (amended): an MMR tie goes to the chunk first in the stable         *)
(* fused-descending order; a tie of fused scores among the returned chunks *)
(* goes to the chunk that entered the neighbour set first (the selected    *)
(* chunks in MMR order, each followed by its left and right neighbours for *)
(* w = 1, 2, ...), and the result is the first topK + 2 chunks of the      *)
(* neighbour set in that order.                                            *)
(***************************************************************************)
C11_TiesFavourInsertionOrder ==
    qpc = "done" =>
        LET m == NeighborExpand(index, picked, neighborWindow).members
        IN /\ MmrTiesToFirstScored
           /\ \A a, b \in 1..Len(result) :
                 (a < b /\ result[a].score = result[b].score)
                    => MemberPos(result[a].idx) < MemberPos(result[b].idx)
           /\ \A i \in Range(m) \ ResultIdx : \A a \in 1..Len(result) :
                 \/ ScoreOf(scored, i) < result[a].score
                 \/ /\ ScoreOf(scored, i) = result[a].score
                    /\ MemberPos(result[a].idx) < MemberPos(i)

\* Two returned chunks tie, the later of the fused order is returned first,
\* and MMR chose between two candidates of equal MMR score.
C11_Witness ==
    /\ qpc = "done"
    /\ \E a, b \in 1..Len(result) :
          /\ a < b /\ result[a].score = result[b].score
          /\ ScoredPos(result[a].idx) > ScoredPos(result[b].idx)
    /\ Len(scored) >= 2 /\ Len(picked) >= 1
    /\ scored[1].score = scored[2].score /\ picked[1] = scored[1].idx

OneDocument ==
    /\ index.n >= 1
    /\ \A i \in 0..(index.n - 1) :
          /\ index.chunks[i].source_path = index.chunks[0].source_path
          /\ index.chunks[i].order = i

(***************************************************************************)
(* C20: on an index of one document with order 0..n-1, topK = 1 and        *)
(* neighborWindow = 1, retrieve returns exactly the chunk c of the highest *)
(* fused score and its existing neighbours c-1 and c+1, with c first.      *)
(***************************************************************************)
C20_TopOneWithNeighbours ==
    (qpc = "done" /\ OneDocument /\ topK = 1 /\ neighborWindow = 1) =>
        LET c == result[1].idx
        IN /\ Len(result) >= 1
           /\ \A i \in 0..(index.n - 1) :
                 Fused(dot(qv, index.vectors[i]), kwNorm[i]) <= result[1].score
           /\ result[1].score = Fused(dot(qv, index.vectors[c]), kwNorm[c])
           /\ ResultIdx = {c - 1, c, c + 1} \cap 0..(index.n - 1)
           /\ \A k \in 1..Len(result) :
                 /\ index.chunks[result[k].idx].order = result[k].order
                 /\ Abs(result[k].order - result[1].order) <= 1

\* The best chunk lies strictly inside the document and both neighbours are
\* returned after it.
C20_Witness ==
    /\ qpc = "done" /\ OneDocument /\ topK = 1 /\ neighborWindow = 1
    /\ index.n >= 3 /\ Len(result) = 3
    /\ 0 < result[1].idx /\ result[1].idx < index.n - 1
    /\ {result[2].idx, result[3].idx} = {result[1].idx - 1, result[1].idx + 1}

(***************************************************************************)
(* C22: on an index of zero chunks retrieve returns the empty sequence,    *)
(* for every topK and neighborWindow, when the embedding call answers; and *)
(* when the embedding call fails retrieve fails, whatever the index, with  *)
(* nothing scored, selected or returned.                                   *)
(***************************************************************************)
C22_EmptyIndexAndEmbedFailure ==
    /\ (index.n = 0 /\ qpc = "done") =>
          scored = <<>> /\ picked = <<>> /\ accessed = {} /\ result = <<>>
    /\ (index.n = 0 /\ qpc = "ready") => ENABLED Retrieve
    /\ qpc = "failed" => scored = <<>> /\ picked = <<>> /\ result = <<>>

C22_Witness ==
    /\ index.n = 0 /\ qpc = "done" /\ result = <<>>
    /\ topK = MaxTopK /\ neighborWindow = MaxWindow

\* retrieve on one document of WideIndex chunks: with topK = 2 the union of
\* selected and neighbour chunks can exceed topK + 2.
WideIndex == 5

WideInit ==
    /\ \E vs \in [0..(WideIndex - 1) -> Vecs] :
          index = [n |-> WideIndex, chunks |-> ChunksOfLayout(<<WideIndex>>),
                   vectors |-> vs]
    /\ kwNorm \in [0..(index.n - 1) -> 0..1]
    /\ qv \in QueryVecs
    /\ topK \in 0..MaxTopK
    /\ neighborWindow \in 0..MaxWindow
    /\ qpc = "ready"
    /\ scored = <<>> /\ picked = <<>> /\ accessed = {} /\ result = <<>>

\* the members of the union that the final sort puts before chunk i
Before(i) ==
    LET m == NeighborExpand(index, picked, neighborWindow).members
    IN {j \in Range(m) :
          \/ ScoreOf(scored, j) > ScoreOf(scored, i)
          \/ ScoreOf(scored, j) = ScoreOf(scored, i) /\ MemberPos(j) < MemberPos(i)}

(***************************************************************************)
(* C26: every chunk MMR selected is in retrieve's result, for topK >= 1    *)
(* and every neighborWindow.                                               *)
(***************************************************************************)
C26_SelectedSurviveTrim ==
    (qpc = "done" /\ topK >= 1) => Range(picked) \subseteq ResultIdx

(***************************************************************************)
(* C26 as the code has it: a selected chunk is in the result exactly when  *)
(* fewer than topK + 2 chunks of the union precede it in the final order   *)
(* (a higher fused score, or the same and earlier in the union); the first *)
(* selected chunk always is.                                               *)
(***************************************************************************)
C26_SelectedSurviveUnlessOutranked ==
    (qpc = "done" /\ topK >= 1) =>
        /\ \A i \in Range(picked) :
              i \in ResultIdx <=> Cardinality(Before(i)) < topK + Slack
        /\ picked # <<>> => picked[1] \in ResultIdx

\* a selected chunk is cut while neighbours stay
C26_Witness ==
    /\ qpc = "done" /\ topK = 2 /\ neighborWindow = 1
    /\ Len(picked) = 2 /\ picked[2] \notin ResultIdx
    /\ Len(result) = topK + Slack

(***************************************************************************)
(* mmr as a function of its arguments: the candidates in fused-descending  *)
(* order (retrieve passes scored.slice(0, 40)), the vectors, K.  Scores    *)
(* are the values fused scores take, in tenths; the vectors include an     *)
(* opposite one, so that a dot product can be negative.                    *)
(***************************************************************************)
MaxCand == 3
MmrVecs == Vecs \cup {<<-1, 0>>}
MmrScores == {Fused(sem, kwn) : sem \in 0..1, kwn \in 0..1}

MmrIdle ==
    /\ mmrItems = <<>> /\ mmrVecs = <<>> /\ mmrK = 0 /\ mmrSel = <<>>
    /\ mpc = "idle"

MmrInit ==
    /\ \E n \in 1..MaxCand :
         /\ \E sc \in [1..n -> MmrScores] :
              /\ \A k \in 1..(n - 1) : sc[k] >= sc[k + 1]
              /\ mmrItems = [k \in 1..n |-> [idx |-> k - 1, score |-> sc[k]]]
         /\ mmrVecs \in [0..(n - 1) -> MmrVecs]
    /\ mmrK \in 0..MaxTopK
    /\ mmrSel = <<>>
    /\ mpc = "ready"

\* retrieval.ts 45-73
RunMmr ==
    /\ mpc = "ready"
    /\ mmrSel' = mmr(mmrItems, mmrVecs, mmrK)
    /\ mpc' = "done"
    /\ UNCHANGED <<mmrItems, mmrVecs, mmrK>>
    /\ UNCHANGED notMmr

MmrNext == RunMmr

\* lambda * relevance - (1 - lambda) * sim, in hundredths
Marginal(i, sim) == 6 * mmrItems[i + 1].score - 40 * sim

\* the dot products of candidate i with the chunks selected before pick p
SimsBefore(i, p) == {dot(mmrVecs[i], mmrVecs[mmrSel[q]]) : q \in 1..(p - 1)}

SetMax(S) == CHOOSE m \in S : \A x \in S : m >= x

\* the candidates left at pick p
LeftAt(p) == (0..(Len(mmrItems) - 1)) \ {mmrSel[q] : q \in 1..(p - 1)}

\* candidates 0 and 1 are near-duplicates holding the two highest scores and
\* candidate c is distinct from both with a lower score
Diversifiable(c) ==
    /\ mpc = "done" /\ mmrK = 2 /\ c \in 2..(Len(mmrItems) - 1)
    /\ dot(mmrVecs[0], mmrVecs[1]) = 1
    /\ dot(mmrVecs[c], mmrVecs[0]) = 0 /\ dot(mmrVecs[c], mmrVecs[1]) = 0
    /\ mmrItems[c + 1].score < mmrItems[2].score

TopAndDistinct(c) ==
    /\ Len(mmrSel) = 2 /\ mmrSel[1] = 0 /\ mmrSel[2] # 1
    /\ Len(mmrItems) = 3 => mmrSel[2] = c

(***************************************************************************)
(* C21: with two near-duplicates holding the two highest fused scores and  *)
(* a distinct chunk with a lower one, mmr with K = 2 returns the top chunk *)
(* and the distinct chunk; and each pick maximizes, over the candidates    *)
(* left, lambda * relevance - (1 - lambda) * (the maximum dot product with *)
(* the chunks already selected; nothing is subtracted for the first pick). *)
(***************************************************************************)
C21_MmrDiversifies ==
    /\ \A c \in 0..MaxCand : Diversifiable(c) => TopAndDistinct(c)
    /\ mpc = "done" =>
         \A p \in 1..Len(mmrSel) : \A i \in LeftAt(p) :
            LET sim(x) == IF p = 1 THEN 0 ELSE SetMax(SimsBefore(x, p))
            IN Marginal(mmrSel[p], sim(mmrSel[p])) >= Marginal(i, sim(i))

(***************************************************************************)
(* C21 as the code has it: the distinct chunk is returned when its score   *)
(* is less than (1 - lambda) / lambda = 2/3 below the second duplicate's;  *)
(* the penalty of a candidate is the largest of 0 and its dot products     *)
(* with the selected chunks; among equal maxima the candidate that comes   *)
(* first in the fused-descending order is picked; mmr returns              *)
(* min(K, number of candidates) chunks.                                    *)
(***************************************************************************)
C21_MmrMaximizesClampedMarginal ==
    /\ \A c \in 0..MaxCand :
         (Diversifiable(c)
            /\ 6 * (mmrItems[2].score - mmrItems[c + 1].score) < 40)
         => TopAndDistinct(c)
    /\ mpc = "done" =>
         /\ Len(mmrSel) = Min(mmrK, Len(mmrItems))
         /\ \A p \in 1..Len(mmrSel) : \A i \in LeftAt(p) :
              LET sim(x) == SetMax(SimsBefore(x, p) \cup {0})
              IN /\ mmrSel[p] \in LeftAt(p)
                 /\ Marginal(mmrSel[p], sim(mmrSel[p])) >= Marginal(i, sim(i))
                 /\ Marginal(mmrSel[p], sim(mmrSel[p])) = Marginal(i, sim(i))
                       => mmrSel[p] <= i

\* the scenario with the distinct chunk close enough in score: it is picked
C21_Witness ==
    /\ mpc = "done" /\ Len(mmrItems) = 3 /\ Diversifiable(2)
    /\ 6 * (mmrItems[2].score - mmrItems[3].score) < 40
    /\ mmrSel = <<0, 2>>

(***************************************************************************)
(* Context assembly.  A passage is described by the lengths the assemblers *)
(* compute with: of source_name, of section (0: none), of text, and of the *)
(* white space at the ends of text.                                        *)
(***************************************************************************)
MaxPassages == 3
MinSlice == 200
CharsPerToken == 4
SepChars == 4
NameLen == 5

Passage(n, sec, len, ws) == [name |-> n, section |-> sec, len |-> len, ws |-> ws]
PassageSet ==
    {Passage(NameLen, sec, len, ws) :
        sec \in {0, 6}, len \in {120, 240, 800}, ws \in {0, 2}}

Assemblers == {"buildContext", "formatContextForPrompt", "trimToRoughChars"}
Budgets(a) ==
    CASE a = "buildContext" -> {0, 396, 900, 6000}
      [] a = "formatContextForPrompt" -> {0, 110, 111, 3500}
      [] OTHER -> {0, 440, 441, 3500 * 4}

\* "\n\n---\n\n".length
JoinLen == 7

\* blocks.join("\n\n---\n\n").length
RECURSIVE Joined(_)
Joined(blocks) ==
    IF blocks = <<>> THEN 0
    ELSE IF Len(blocks) = 1 THEN blocks[1]
    ELSE blocks[1] + JoinLen + Joined(Tail(blocks))

\* search.ts 35-38: Math.ceil(s.length / 4)
roughTokenCount(len) == (len + CharsPerToken - 1) \div CharsPerToken

\* retrieval.ts 137-138: `[name( > section)?]` + "\n" + text.trim()
BlockLen(p) ==
    (1 + p.name + (IF p.section > 0 THEN 3 + p.section ELSE 0) + 1)
    + 1 + (p.len - p.ws)

Pick(i, len) == [i |-> i, len |-> len]

\* retrieval.ts 136-142
RECURSIVE BuildContextLoop(_, _, _, _, _)
BuildContextLoop(ps, maxChars, k, used, out) ==
    IF k > Len(ps) THEN out
    ELSE IF used + BlockLen(ps[k]) + SepChars > maxChars THEN out
    ELSE BuildContextLoop(ps, maxChars, k + 1,
                          used + BlockLen(ps[k]) + SepChars,
                          Append(out, Pick(k, ps[k].len - ps[k].ws)))

\* retrieval.ts 133-144
buildContext(ps, maxChars) ==
    LET out == BuildContextLoop(ps, maxChars, 1, 0, <<>>)
    IN [picked |-> out,
        context |-> Joined([k \in 1..Len(out) |-> BlockLen(ps[out[k].i])])]

\* search.ts 114 and indexer.ts 138: `[source_name]` + "\n" + text
LabelledLen(p, textLen) == 1 + p.name + 1 + 1 + textLen

\* search.ts 97-112
RECURSIVE FormatLoop_SkipAndGoOn(_, _, _, _, _)
FormatLoop_SkipAndGoOn(hits, budgetTokens, k, used, out) ==
    IF k > Len(hits) THEN out
    ELSE LET t == roughTokenCount(hits[k].len)
         IN IF used + t <= budgetTokens
            THEN FormatLoop_SkipAndGoOn(hits, budgetTokens, k + 1, used + t,
                                        Append(out, Pick(k, hits[k].len)))
            ELSE FormatLoop_SkipAndGoOn(hits, budgetTokens, k + 1, used, out)
RECURSIVE FormatLoop(_, _, _, _, _)
FormatLoop(hits, budgetTokens, k, used, out) ==
    IF k > Len(hits) THEN out
    ELSE LET t == roughTokenCount(hits[k].len)
         IN IF used + t <= budgetTokens
            THEN FormatLoop(hits, budgetTokens, k + 1, used + t,
                            Append(out, Pick(k, hits[k].len)))
            ELSE LET allowed == Max(0, budgetTokens - used) * CharsPerToken
                 IN IF allowed > MinSlice
                    THEN Append(out, Pick(k, Min(hits[k].len, allowed)))
                    ELSE out

\* search.ts 96-116
formatContextForPrompt(hits, budgetTokens) ==
    LET out == FormatLoop(hits, budgetTokens, 1, 0, <<>>)
    IN [picked |-> out,
        context |-> Joined([k \in 1..Len(out) |->
                              LabelledLen(hits[out[k].i], out[k].len)])]

\* indexer.ts 140-155
RECURSIVE TrimLoop(_, _, _, _, _)
TrimLoop(arr, charBudget, k, used, out) ==
    IF k > Len(arr) THEN out
    ELSE IF used + arr[k].len <= charBudget
         THEN TrimLoop(arr, charBudget, k + 1, used + arr[k].len,
                       Append(out, Pick(k, arr[k].len)))
         ELSE IF charBudget - used > MinSlice
              THEN Append(out, Pick(k, Min(arr[k].len, charBudget - used)))
              ELSE out

\* indexer.ts 110-113, 137-139: formatContext(trimToRoughChars(hits, budget))
trimToRoughChars(arr, charBudget) ==
    LET out == TrimLoop(arr, charBudget, 1, 0, <<>>)
    IN [picked |-> out,
        context |-> Joined([k \in 1..Len(out) |->
                              LabelledLen(arr[out[k].i], out[k].len)])]

NoContext == [picked |-> <<>>, context |-> 0]

ContextIdle ==
    /\ assembler = "none" /\ passages = <<>> /\ budget = 0 /\ cpc = "idle"
    /\ cout = NoContext

ContextInit ==
    /\ assembler \in Assemblers
    /\ passages \in UNION {[1..n -> PassageSet] : n \in 0..MaxPassages}
    /\ budget \in Budgets(assembler)
    /\ cpc = "ready"
    /\ cout = NoContext

Assemble ==
    /\ cpc = "ready"
    /\ cout' = CASE assembler = "buildContext" -> buildContext(passages, budget)
                 [] assembler = "formatContextForPrompt" ->
                        formatContextForPrompt(passages, budget)
                 [] OTHER -> trimToRoughChars(passages, budget)
    /\ cpc' = "done"
    /\ UNCHANGED <<assembler, passages, budget>>
    /\ UNCHANGED notContext

ContextNext == Assemble

(***************************************************************************)
(* C7: the rendered context, labels and separators included, measured in   *)
(* the budget's unit (characters, or estimated tokens for                  *)
(* formatContextForPrompt), never exceeds the budget.                      *)
(***************************************************************************)
C7_ContextWithinBudget ==
    cpc = "done" =>
        IF assembler = "formatContextForPrompt"
        THEN (cout.context + 3) \div 4 <= budget
        ELSE cout.context <= budget

(***************************************************************************)
(* C8: the included passages are a prefix of the input in rank order, all  *)
(* but the last in full; the first passage that does not fit is included   *)
(* cut to at most the remaining budget, and only if more than 200          *)
(* characters remain, or is dropped; nothing after it is included.         *)
(***************************************************************************)
\* What including passage p in full costs, as the assembler counts.
CostOf(a, p) ==
    CASE a = "buildContext" ->
            (p.name + 2 + (IF p.section > 0 THEN p.section + 3 ELSE 0))
            + 1 + (p.len - p.ws) + 4
      [] a = "formatContextForPrompt" -> (p.len + 3) \div 4
      [] OTHER -> p.len

RECURSIVE UsedBy(_, _, _)
UsedBy(a, ps, k) == IF k = 0 THEN 0 ELSE UsedBy(a, ps, k - 1) + CostOf(a, ps[k])

\* The first passage that does not fit; Len + 1 when all fit.
FirstOverflow(a, ps, b) ==
    IF \E k \in 1..Len(ps) : UsedBy(a, ps, k) > b
    THEN CHOOSE k \in 1..Len(ps) :
            /\ UsedBy(a, ps, k) > b
            /\ \A j \in 1..(k - 1) : UsedBy(a, ps, j) <= b
    ELSE Len(ps) + 1

\* The text a passage contributes when included in full.
FullText(a, p) == IF a = "buildContext" THEN p.len - p.ws ELSE p.len

C8_PrefixOnlyLastCut ==
    cpc = "done" =>
        LET out == cout.picked
            j == FirstOverflow(assembler, passages, budget)
            left == budget - UsedBy(assembler, passages, j - 1)
            leftChars == IF assembler = "formatContextForPrompt"
                         THEN 4 * left ELSE left
        IN /\ \A k \in 1..Len(out) : out[k].i = k
           /\ Len(out) \in {j - 1, j}
           /\ Len(out) <= Len(passages)
           /\ \A k \in 1..Len(out) :
                 k < j => out[k].len = FullText(assembler, passages[k])
           /\ Len(out) = j =>
                 /\ assembler # "buildContext"
                 /\ leftChars > 200
                 /\ out[j].len <= leftChars
                 /\ out[j].len < passages[j].len

\* A passage is cut to the 204 characters that remain, a later passage that
\* would have fit in full is left out, and an earlier one is included whole.
C8_Witness ==
    /\ cpc = "done"
    /\ Len(cout.picked) = 2 /\ Len(passages) = 3
    /\ cout.picked[1].len = passages[1].len
    /\ cout.picked[2].len < passages[2].len
    /\ cout.picked[2].len = 204
    /\ CostOf(assembler, passages[1]) + CostOf(assembler, passages[3]) <= budget

(***************************************************************************)
(* chunkStructured: chunk.ts, and the variant of build-index.ts that main  *)
(* calls.  A text is a sequence of characters; a character of line n of    *)
(* the document is the number n, a line break is NL and a blank is SP, so  *)
(* that a text tells which lines it holds.  The build script's constants   *)
(* are scaled down, keeping                                                *)
(*   MIN_CHARS_PER_CHUNK < CHUNK_CHAR_OVERLAP < CHUNK_CHAR_TARGET.         *)
(***************************************************************************)
MaxLines == 6
CHUNK_CHAR_TARGET == 12
CHUNK_CHAR_OVERLAP == 5
MIN_CHARS_PER_CHUNK == 4

NL == 0
SP == -1
IsWs(c) == c <= 0

RECURSIVE TrimStart(_)
TrimStart(t) == IF t # <<>> /\ IsWs(t[1]) THEN TrimStart(Tail(t)) ELSE t

RECURSIVE TrimEnd(_)
TrimEnd(t) ==
    IF t # <<>> /\ IsWs(t[Len(t)]) THEN TrimEnd(SubSeq(t, 1, Len(t) - 1))
    ELSE t

\* String.prototype.trim
Trim(t) == TrimEnd(TrimStart(t))

\* Array.prototype.join("\n")
RECURSIVE JoinNl(_)
JoinNl(parts) ==
    IF parts = <<>> THEN <<>>
    ELSE IF Len(parts) = 1 THEN parts[1]
    ELSE parts[1] \o <<NL>> \o JoinNl(Tail(parts))

\* String.prototype.split("\n")
RECURSIVE SplitFrom(_, _, _, _)
SplitFrom(t, k, cur, acc) ==
    IF k > Len(t) THEN Append(acc, cur)
    ELSE IF t[k] = NL THEN SplitFrom(t, k + 1, <<>>, Append(acc, cur))
    ELSE SplitFrom(t, k + 1, Append(cur, t[k]), acc)
SplitNl(t) == SplitFrom(t, 1, <<>>, <<>>)

\* joined.slice(Math.max(0, joined.length - overlap))
SliceTail(t, n) == SubSeq(t, Max(0, Len(t) - n) + 1, Len(t))

\* A line of the document: a heading or not, `lead` blanks, then `body`
\* characters that are not white space.  A heading is a line HEADING_RX
\* matches and whose cleaned text is not empty.
LineKinds ==
    {[h |-> TRUE, lead |-> 0, body |-> 2],
     [h |-> FALSE, lead |-> 0, body |-> 0],
     [h |-> FALSE, lead |-> 0, body |-> 1],
     [h |-> FALSE, lead |-> 4, body |-> 1],
     [h |-> FALSE, lead |-> 0, body |-> 10]}

Docs == UNION {[1..n -> LineKinds] : n \in 0..MaxLines}

LineText(d, n) ==
    [i \in 1..(d[n].lead + d[n].body) |-> IF i <= d[n].lead THEN SP ELSE n]

\* The text read from the file
RawText(d) == JoinNl([n \in 1..Len(d) |-> LineText(d, n)])

\* build-index.ts 61-67 (the text holds no \r)
normalizeWs(t) ==
    LET lns == SplitNl(t)
    IN Trim(JoinNl([k \in 1..Len(lns) |-> TrimEnd(lns[k])]))

\* HEADING_RX.test(s), s being a line with its end trimmed
HeadingRx(d, s) == s # <<>> /\ s[Len(s)] > 0 /\ d[s[Len(s)]].h

\* trail.push(cleaned); if (trail.length > 3) trail.shift()
PushTrail(trail, s) ==
    LET t == Append(trail, s[Len(s)])
    IN IF Len(t) > 3 THEN Tail(t) ELSE t

\* flush / pushBuf
FlushBuf(blocks, trail, buf) ==
    LET text == Trim(JoinNl(buf))
    IN IF text # <<>>
       THEN Append(blocks, [headingTrail |-> trail, text |-> text])
       ELSE blocks

\* chunk.ts 49-65, build-index.ts 99-112
RECURSIVE BlocksFrom(_, _, _, _, _, _)
BlocksFrom(d, lns, k, blocks, trail, buf) ==
    IF k > Len(lns) THEN FlushBuf(blocks, trail, buf)
    ELSE LET s == TrimEnd(lns[k])
         IN IF HeadingRx(d, s)
            THEN BlocksFrom(d, lns, k + 1, FlushBuf(blocks, trail, buf),
                            PushTrail(trail, s), <<>>)
            ELSE BlocksFrom(d, lns, k + 1, blocks, trail, Append(buf, lns[k]))

Blocks(d, lns) == BlocksFrom(d, lns, 1, <<>>, <<>>, <<>>)

\* A chunk as pushed: `joined` is acc.join("\n") (cur.join("\n") in the
\* sub-split), the text accumulated for it; `via` tells which loop pushed it.
ChunkRec(order, text, joined, via, section) ==
    [order |-> order, text |-> text, joined |-> joined, via |-> via,
     section |-> section]

BundleStart(blocks) ==
    [out |-> <<>>, order |-> 0, acc |-> <<>>, accLen |-> 0,
     section |-> IF blocks # <<>> THEN blocks[1].headingTrail ELSE <<>>]

\* The overlap seed: acc = [tail] or []
OverlapAcc(acc, overlap) ==
    IF overlap > 0 THEN <<SliceTail(JoinNl(acc), overlap)>> ELSE <<>>

\* chunk.ts 77-93
emit(st) ==
    LET text == Trim(JoinNl(st.acc))
    IN IF text = <<>> THEN st
       ELSE [st EXCEPT
               !.out = Append(@, ChunkRec(st.order, text, JoinNl(st.acc),
                                          "bundle", st.section)),
               !.order = @ + 1]

\* chunk.ts 95-123
RECURSIVE BundleLoop(_, _, _, _, _)
BundleLoop(st, blocks, k, target, overlap) ==
    IF k > Len(blocks) THEN (IF st.acc # <<>> THEN emit(st) ELSE st)
    ELSE LET piece == blocks[k].text
             blockSection == blocks[k].headingTrail
             st1 == IF st.acc # <<>> /\ st.accLen + Len(piece) + 1 > target
                    THEN [emit(st) EXCEPT
                            !.acc = OverlapAcc(st.acc, overlap),
                            !.accLen = Len(JoinNl(OverlapAcc(st.acc, overlap))),
                            !.section = blockSection]
                    ELSE IF st.acc = <<>>
                    THEN [st EXCEPT !.section = blockSection]
                    ELSE st
         IN BundleLoop([st1 EXCEPT !.acc = Append(@, piece),
                                   !.accLen = @ + Len(piece) + 1],
                       blocks, k + 1, target, overlap)

\* chunk.ts 29-126
chunkStructured(d, target, overlap) ==
    LET blocks == Blocks(d, SplitNl(RawText(d)))
    IN BundleLoop(BundleStart(blocks), blocks, 1, target, overlap).out

\* build-index.ts 121-133
emitBuild_CountsDropped(st) ==
    LET text == Trim(JoinNl(st.acc))
    IN IF text = <<>> \/ Len(text) < MIN_CHARS_PER_CHUNK
       THEN [st EXCEPT !.order = @ + 1]
       ELSE [st EXCEPT
               !.out = Append(@, ChunkRec(st.order, text, JoinNl(st.acc),
                                          "bundle", st.section)),
               !.order = @ + 1]
emitBuild(st) ==
    LET text == Trim(JoinNl(st.acc))
    IN IF text = <<>> \/ Len(text) < MIN_CHARS_PER_CHUNK THEN st
       ELSE [st EXCEPT
               !.out = Append(@, ChunkRec(st.order, text, JoinNl(st.acc),
                                          "bundle", st.section)),
               !.order = @ + 1]

\* build-index.ts 144-155 and 175-186: the push of the sub-split
PushCur(st, cur, blockSection) ==
    LET t == Trim(JoinNl(cur))
    IN IF t # <<>> /\ Len(t) >= MIN_CHARS_PER_CHUNK
       THEN [st EXCEPT
               !.out = Append(@, ChunkRec(st.order, t, JoinNl(cur), "split",
                                          blockSection)),
               !.order = @ + 1]
       ELSE st

\* build-index.ts 167-187
RECURSIVE SplitLoop(_, _, _, _, _, _, _, _)
SplitLoop(st, lns, k, cur, curLen, blockSection, target, overlap) ==
    IF k > Len(lns)
    THEN (IF cur # <<>> THEN PushCur(st, cur, blockSection) ELSE st)
    ELSE LET l == lns[k]
             fl == curLen + Len(l) + 1 > target /\ cur # <<>>
             st1 == IF fl THEN PushCur(st, cur, blockSection) ELSE st
             cur1 == IF fl THEN OverlapAcc(cur, overlap) ELSE cur
             len1 == IF fl THEN Len(JoinNl(OverlapAcc(cur, overlap)))
                     ELSE curLen
         IN SplitLoop(st1, lns, k + 1, Append(cur1, l), len1 + Len(l) + 1,
                      blockSection, target, overlap)

\* build-index.ts 135-210
RECURSIVE BundleLoopBuild(_, _, _, _, _)
BundleLoopBuild(st, blocks, k, target, overlap) ==
    IF k > Len(blocks) THEN (IF st.acc # <<>> THEN emitBuild(st) ELSE st)
    ELSE LET piece == blocks[k].text
             blockSection == blocks[k].headingTrail
         IN IF 2 * Len(piece) > 3 * target
            THEN BundleLoopBuild(
                    SplitLoop(st, SplitNl(piece), 1, <<>>, 0, blockSection,
                              target, overlap),
                    blocks, k + 1, target, overlap)
            ELSE LET st1 ==
                       IF st.accLen + Len(piece) + 2 > target /\ st.acc # <<>>
                       THEN [emitBuild(st) EXCEPT
                               !.acc = OverlapAcc(st.acc, overlap),
                               !.accLen =
                                   Len(JoinNl(OverlapAcc(st.acc, overlap))),
                               !.section = blockSection]
                       ELSE IF st.acc = <<>>
                       THEN [st EXCEPT !.section = blockSection]
                       ELSE st
                 IN BundleLoopBuild([st1 EXCEPT !.acc = Append(@, piece),
                                                !.accLen = @ + Len(piece) + 2],
                                    blocks, k + 1, target, overlap)

\* build-index.ts 80-213
chunkStructuredBuild(d, target, overlap) ==
    LET blocks == Blocks(d, SplitNl(normalizeWs(RawText(d))))
    IN BundleLoopBuild(BundleStart(blocks), blocks, 1, target, overlap).out

\* build-index.ts 278-279: main's filter on what chunkStructured returned
MainFilter(parts) ==
    SelectSeq(parts, LAMBDA c : Len(c.text) >= MIN_CHARS_PER_CHUNK)

ChunkIdle ==
    /\ chunker = "none" /\ doc = <<>> /\ targetChars = 0 /\ overlapChars = 0
    /\ kpc = "idle" /\ chunkOut = <<>>

\* main calls with its two constants; chunk.ts's function is exported and
\* smartChunk passes what the environment configures.
ChunkInit ==
    /\ chunker \in {"chunk.ts", "build-index.ts"}
    /\ doc \in Docs
    /\ IF chunker = "build-index.ts"
       THEN targetChars = CHUNK_CHAR_TARGET /\ overlapChars = CHUNK_CHAR_OVERLAP
       ELSE \E p \in {<<4, 0>>, <<4, 2>>,
                       <<CHUNK_CHAR_TARGET, CHUNK_CHAR_OVERLAP>>} :
               targetChars = p[1] /\ overlapChars = p[2]
    /\ kpc = "ready" /\ chunkOut = <<>>

RunChunkStructured ==
    /\ kpc = "ready"
    /\ chunkOut' = IF chunker = "build-index.ts"
                   THEN chunkStructuredBuild(doc, targetChars, overlapChars)
                   ELSE chunkStructured(doc, targetChars, overlapChars)
    /\ kpc' = "done"
    /\ UNCHANGED <<chunker, doc, targetChars, overlapChars>>
    /\ UNCHANGED notChunk

\* Line n of the document is held in full by text t.
HoldsLine(t, n) ==
    Cardinality({i \in DOMAIN t : t[i] = n}) = doc[n].body

\* A line that is not blank and that no returned chunk holds in full.
LostLines ==
    {n \in 1..Len(doc) :
        doc[n].body > 0 /\ \A k \in 1..Len(chunkOut) : ~HoldsLine(chunkOut[k].text, n)}

(***************************************************************************)
(* C12: the chunks chunkStructured returns for a document carry the orders *)
(* 0, 1, ..., n-1 in emission sequence, and main's length filter removes   *)
(* none of them.                                                           *)
(***************************************************************************)
C12_OrdersContiguous ==
    kpc = "done" =>
        /\ \A k \in 1..Len(chunkOut) : chunkOut[k].order = k - 1
        /\ chunker = "build-index.ts" => MainFilter(chunkOut) = chunkOut

\* build-index.ts's variant sub-split a block and dropped a short fragment.
C12_Witness ==
    /\ kpc = "done" /\ chunker = "build-index.ts"
    /\ Len(chunkOut) >= 2
    /\ \E k \in 1..Len(chunkOut) : chunkOut[k].via = "split"
    /\ \E n \in LostLines : ~doc[n].h

\* The source lines a text has characters of, and the first and last of them.
LinesOf(t) == {t[i] : i \in DOMAIN t} \cap (1..MaxLines)
FirstLine(t) == CHOOSE n \in LinesOf(t) : \A m \in LinesOf(t) : n <= m
LastLine(t) == CHOOSE n \in LinesOf(t) : \A m \in LinesOf(t) : n >= m

(***************************************************************************)
(* C27: chunkStructured of build-index.ts returns a document's chunks in   *)
(* document order: of two chunks the one of the lower order starts no      *)
(* later in the source and ends earlier, so that the chunks at orders k-1  *)
(* and k+1 hold the text around chunk k; also when a block longer than     *)
(* 1.5 x targetChars follows blocks still held in the accumulator.         *)
(***************************************************************************)
C27_ChunksInDocumentOrder ==
    (kpc = "done" /\ chunker = "build-index.ts") =>
        \A i, j \in 1..Len(chunkOut) :
            chunkOut[i].order < chunkOut[j].order =>
                /\ FirstLine(chunkOut[i].text) <= FirstLine(chunkOut[j].text)
                /\ LastLine(chunkOut[i].text) < LastLine(chunkOut[j].text)

(***************************************************************************)
(* C14: every line of the document that is not blank is contained in the   *)
(* text of at least one returned chunk.                                    *)
(***************************************************************************)
C14_NoLineLost ==
    kpc = "done" => LostLines = {}

(***************************************************************************)
(* C15: with overlapChars = K > 0, for two chunks consecutive in the       *)
(* emission sequence and both produced by the bundling of blocks, the text *)
(* accumulated for the second starts with exactly the last min(K, length)  *)
(* characters of the text accumulated for the first, followed by a line    *)
(* break and the next block.                                               *)
(***************************************************************************)
C15_OverlapSeedsNextChunk ==
    (kpc = "done" /\ overlapChars > 0) =>
        \A k \in 1..(Len(chunkOut) - 1) :
            (chunkOut[k].via = "bundle" /\ chunkOut[k + 1].via = "bundle") =>
                LET a == chunkOut[k].joined
                    b == chunkOut[k + 1].joined
                    tail == SliceTail(a, overlapChars)
                    m == Len(tail)
                IN /\ Len(b) >= m + 2
                   /\ SubSeq(b, 1, m) = tail
                   /\ b[m + 1] = NL
                   /\ b[m + 2] > 0
                   /\ \A i \in DOMAIN a : a[i] < b[m + 2]

(***************************************************************************)
(* The query paths.  Each embeds the question with a model it names in the *)
(* embeddings.create call and scores the answer against every vector of    *)
(* the index it was given or has loaded.  What the service answers is not  *)
(* the program's: any vector.  A similarity is kept exact as a numerator   *)
(* and the square of its denominator.                                      *)
(***************************************************************************)
OtherModel == "text-embedding-3-small"
EmbedModels == {EMBED_MODEL, OtherModel}

AskPaths == {"retrieve", "search.ts", "route.ts"}

\* The model of the embeddings.create call: retrieval.ts 84-87 passes
\* index.model; search.ts 29, 70-73 and route.ts 9, 59 pass their own
\* constant EMBED_MODEL.
QueryModel(path, ix) ==
    IF path = "retrieve" THEN ix.model ELSE "text-embedding-3-large"

Sim(num, den2) == [num |-> num, den2 |-> den2]

\* search.ts 39-49: dot / (sqrt(na) * sqrt(nb) || 1e-12); den2 = 0 stands for
\* the 1e-12 denominator
cosine(a, b) == Sim(dot(a, b), dot(a, a) * dot(b, b))

\* route.ts 25-27, 60, 63: q = normalize(embedding), score = dot(q, v)
RouteScore(e, v) == Sim(dot(e, v), IF dot(e, e) = 0 THEN 1 ELSE dot(e, e))

\* retrieval.ts 96: sem = dot(qv, index.vectors[i])
RetrieveSem(v, q) == Sim(dot(q, v), 1)

ScoreOn(path, v, q) ==
    CASE path = "retrieve" -> RetrieveSem(v, q)
      [] path = "search.ts" -> cosine(v, q)
      [] path = "route.ts" -> RouteScore(q, v)

NoAskIndex == [model |-> "", vectors |-> <<>>]

AskIdle ==
    /\ askPath = "none" /\ askIndex = NoAskIndex /\ askModel = ""
    /\ askVec = <<>> /\ askScores = <<>> /\ apc = "idle"

\* The index is one a load accepted: not empty.  Its model field is the
\* model it was built with.
AskInit ==
    /\ askPath \in AskPaths
    /\ \E m \in EmbedModels, n \in 1..MaxLoad :
          \E vs \in [1..n -> Vecs] : askIndex = [model |-> m, vectors |-> vs]
    /\ askModel = "" /\ askVec = <<>> /\ askScores = <<>>
    /\ apc = "ready"

\* retrieval.ts 84-88; search.ts 69-75; route.ts 59
EmbedQuestion ==
    /\ apc = "ready"
    /\ askModel' = QueryModel(askPath, askIndex)
    /\ askVec' \in QueryVecs
    /\ apc' = "embedded"
    /\ UNCHANGED <<askPath, askIndex, askScores>>
    /\ UNCHANGED notAsk

\* retrieval.ts 94-100; search.ts 78; route.ts 63
ScoreIndex ==
    /\ apc = "embedded"
    /\ askScores' = [i \in 1..Len(askIndex.vectors) |->
                        ScoreOn(askPath, askIndex.vectors[i], askVec)]
    /\ apc' = "scored"
    /\ UNCHANGED <<askPath, askIndex, askModel, askVec>>
    /\ UNCHANGED notAsk

AskNext == EmbedQuestion \/ ScoreIndex

(***************************************************************************)
(* C19: every query vector scored against an index's vectors was produced  *)
(* by the embedding model named in that index's model field, on each of    *)
(* the query paths (retrieve, search.ts, the /api/ask route).              *)
(***************************************************************************)
C19_QueryEmbeddedWithIndexModel ==
    (apc = "scored" /\ askScores # <<>>) => askModel = askIndex.model


(***************************************************************************)
(* The POST handler of /api/ask.  A response is the status and the JSON    *)
(* body; a body field that is not set is not in the record.                *)
(***************************************************************************)
Bodies == {"not-json", "no-question", "blank-question", "question"}
Keys == {"", "sk-proj-abc", "sk-abc"}
\* an Error's message; "" for a thrown value with no or an empty message
Thrown == {"message", ""}
PostEnvs ==
    [index : {"ok", "empty", "unreadable"}, embed : {"ok", "error"},
     chat : {"ok", "empty", "error"}, thrown : Thrown]

NoResponse == [status |-> 0]
Json(status, body) == [status |-> status, body |-> body]

\* route.ts 99-102
Caught(msg) ==
    Json(500, [ok |-> FALSE, error |-> IF msg = "" THEN "Serverfout" ELSE msg])

\* route.ts 33-37: (body?.question ?? "").toString().trim()
Question(b) == IF b = "question" THEN "question" ELSE ""

PostIdle ==
    /\ postBody = "" /\ postKey = "" /\ postEnv = <<>> /\ ppc = "idle"
    /\ postResp = NoResponse

PostInit ==
    /\ postBody \in Bodies
    /\ postKey \in Keys
    /\ postEnv \in PostEnvs
    /\ ppc = "body"
    /\ postResp = NoResponse

Respond(r) == ppc' = "responded" /\ postResp' = r

\* route.ts 33-42
PostReadBody ==
    /\ ppc = "body"
    /\ IF Question(postBody) = ""
       THEN Respond(Json(400, [ok |-> FALSE, error |-> "Vraag ontbreekt.",
                               code |-> "bad_request"]))
       ELSE ppc' = "key" /\ UNCHANGED postResp
    /\ UNCHANGED <<postBody, postKey, postEnv>>
    /\ UNCHANGED notPost

\* route.ts 44-51
PostCheckKey ==
    /\ ppc = "key"
    /\ IF postKey = "" \/ postKey = "sk-proj-abc"
       THEN Respond(Json(500, [ok |-> FALSE,
                               error |-> "OPENAI_API_KEY ontbreekt of is sk-proj-",
                               code |-> "auth"]))
       ELSE ppc' = "index" /\ UNCHANGED postResp
    /\ UNCHANGED <<postBody, postKey, postEnv>>
    /\ UNCHANGED notPost

\* route.ts 53 with 16-23: readFile or JSON.parse throws, or getIndex does
PostGetIndex ==
    /\ ppc = "index"
    /\ IF postEnv.index = "unreadable" THEN Respond(Caught(postEnv.thrown))
       ELSE IF postEnv.index = "empty"
            THEN Respond(Caught("Indexbestand ongeldig of leeg."))
            ELSE ppc' = "embed" /\ UNCHANGED postResp
    /\ UNCHANGED <<postBody, postKey, postEnv>>
    /\ UNCHANGED notPost

\* route.ts 59-72
PostEmbed ==
    /\ ppc = "embed"
    /\ IF postEnv.embed = "error" THEN Respond(Caught(postEnv.thrown))
       ELSE ppc' = "chat" /\ UNCHANGED postResp
    /\ UNCHANGED <<postBody, postKey, postEnv>>
    /\ UNCHANGED notPost

\* route.ts 78-98
PostChat ==
    /\ ppc = "chat"
    /\ IF postEnv.chat = "error" THEN Respond(Caught(postEnv.thrown))
       ELSE Respond(Json(200,
               [ok |-> TRUE, mode |-> "json",
                answer |-> IF postEnv.chat = "empty"
                           THEN "Ik kan het niet beantwoorden"
                           ELSE "answer"]))
    /\ UNCHANGED <<postBody, postKey, postEnv>>
    /\ UNCHANGED notPost

PostNext ==
    PostReadBody \/ PostCheckKey \/ PostGetIndex \/ PostEmbed \/ PostChat

(***************************************************************************)
(* C23: every failure of a POST /api/ask request is answered with a JSON   *)
(* body with ok = false that carries a failure kind (code) and a message.  *)
(***************************************************************************)
C23_FailuresCarryCodeAndMessage ==
    (ppc = "responded" /\ postResp.status # 200) =>
        /\ postResp.body.ok = FALSE
        /\ "error" \in DOMAIN postResp.body /\ postResp.body.error # ""
        /\ "code" \in DOMAIN postResp.body


(***************************************************************************)
(* runPythonAsk.  Run 1 is the --json run, run 2 the plain one.  A child   *)
(* is "running" from spawn, "signalled" once child.kill() has sent the     *)
(* signal, "errored" after its error event, "closed" after its close       *)
(* event; a signalled child is still a process until it closes.  The       *)
(* events of a run come in any order the runtime allows.                   *)
(***************************************************************************)
Runs == 1..2
Settings ==
    {"complete", "no-script-or-index", "python-not-found", "script-not-found",
     "index-not-found", "no-key", "no-project", "bad-project"}
\* exit codes of the close event; -1 stands for null (ended by a signal)
ExitCodes == {0, 1, 2, -1}

Pending == [ok |-> FALSE, error |-> "pending"]
At(place, k) == [at |-> place, run |-> k]
RunOk(k) == [ok |-> TRUE, stdout |-> k]
RunFailed(k, why) == [ok |-> FALSE, error |-> <<k, why>>]
\* indexer.ts 263-267: the message holds the exit code
RunExited(k, code) == [ok |-> FALSE, error |-> <<k, "exit", code>>]

\* resolve() of a promise: only the first call has an effect
Resolve(cur, r) == IF cur = Pending THEN r ELSE cur

PyIdle ==
    /\ pySettings = "" /\ child = <<>> /\ killTimer = <<>> /\ settled = <<>>
    /\ ypc = At("idle", 0) /\ pyRet = Pending

PyInit ==
    /\ pySettings \in Settings
    /\ child = [k \in Runs |-> "none"]
    /\ killTimer = [k \in Runs |-> "none"]
    /\ settled = [k \in Runs |-> Pending]
    /\ ypc = At("start", 0) /\ pyRet = Pending

\* indexer.ts 243-250: spawn and setTimeout
TryRun(k) ==
    /\ child' = [child EXCEPT ![k] = "running"]
    /\ killTimer' = [killTimer EXCEPT ![k] = "armed"]
    /\ ypc' = At("await", k)

\* indexer.ts 180-205, 273-274
PyStart ==
    /\ ypc = At("start", 0)
    /\ IF pySettings # "complete"
       THEN /\ ypc' = At("returned", 0)
            /\ pyRet' = [ok |-> FALSE, error |-> pySettings]
            /\ UNCHANGED <<child, killTimer>>
       ELSE TryRun(1) /\ UNCHANGED pyRet
    /\ UNCHANGED <<pySettings, settled>>
    /\ UNCHANGED notPy

\* indexer.ts 247-250
PyTimeout(k) ==
    /\ killTimer[k] = "armed"
    /\ killTimer' = [killTimer EXCEPT ![k] = "fired"]
    /\ child' = [child EXCEPT ![k] = "signalled"]
    /\ settled' = [settled EXCEPT ![k] = Resolve(@, RunFailed(k, "timeout"))]
    /\ UNCHANGED <<pySettings, ypc, pyRet>>
    /\ UNCHANGED notPy

\* indexer.ts 254-257
PyError(k) ==
    /\ child[k] = "running"
    /\ child' = [child EXCEPT ![k] = "errored"]
    /\ killTimer' = [killTimer EXCEPT ![k] = "cleared"]
    /\ settled' = [settled EXCEPT ![k] = Resolve(@, RunFailed(k, "error"))]
    /\ UNCHANGED <<pySettings, ypc, pyRet>>
    /\ UNCHANGED notPy

\* indexer.ts 258-269
PyClose(k, code) ==
    /\ child[k] \in {"running", "signalled", "errored"}
    /\ child[k] = "running" => code # -1
    /\ child' = [child EXCEPT ![k] = "closed"]
    /\ killTimer' = [killTimer EXCEPT ![k] = IF @ = "armed" THEN "cleared" ELSE @]
    /\ settled' = [settled EXCEPT ![k] =
                     Resolve(@, IF code = 0 THEN RunOk(k)
                                ELSE RunExited(k, code))]
    /\ UNCHANGED <<pySettings, ypc, pyRet>>
    /\ UNCHANGED notPy

\* indexer.ts 274-283: the continuation of `await tryRun(...)`
PyResume ==
    /\ \E k \in Runs :
         /\ ypc = At("await", k)
         /\ settled[k] # Pending
         /\ IF settled[k].ok
            THEN /\ ypc' = At("returned", 0) /\ pyRet' = settled[k]
                 /\ UNCHANGED <<child, killTimer>>
            ELSE IF k = 1 THEN TryRun(2) /\ UNCHANGED pyRet
            ELSE /\ ypc' = At("returned", 0)
                 /\ pyRet' = [ok |-> FALSE,
                              error |-> <<settled[1].error, settled[2].error>>]
                 /\ UNCHANGED <<child, killTimer>>
    /\ UNCHANGED <<pySettings, settled>>
    /\ UNCHANGED notPy

PyNext ==
    \/ PyStart
    \/ \E k \in Runs : PyTimeout(k)
    \/ \E k \in Runs : PyError(k)
    \/ \E k \in Runs, code \in ExitCodes : PyClose(k, code)
    \/ PyResume

IsProcess(k) == child[k] \in {"running", "signalled"}

(***************************************************************************)
(* C29: runPythonAsk never has two child processes at once, run 2 being    *)
(* started only after run 1 has settled as a failure; the result of a run  *)
(* is fixed by the first of timeout, error and close; the call returns the *)
(* stdout of the first run that settled with exit code 0, otherwise        *)
(* ok = false with both runs' errors; with a setting missing nothing is    *)
(* spawned.                                                                *)
(***************************************************************************)
C29_RunsOneAtATime ==
    /\ [](~(IsProcess(1) /\ IsProcess(2)))
    /\ [](child[2] # "none" => settled[1] # Pending /\ ~settled[1].ok)
    /\ [](pySettings # "complete" => child = [k \in Runs |-> "none"])
    /\ [](ypc.at = "returned" /\ pySettings = "complete" =>
            \/ pyRet = RunOk(1) /\ settled[1] = RunOk(1) /\ child[2] = "none"
            \/ pyRet = RunOk(2) /\ settled[2] = RunOk(2) /\ ~settled[1].ok
            \/ /\ ~pyRet.ok /\ ~settled[1].ok /\ ~settled[2].ok
               /\ pyRet.error = <<settled[1].error, settled[2].error>>)
    /\ [][\A k \in Runs : settled[k] # Pending => settled'[k] = settled[k]]_vars


\* Each specification runs one component from its entry state while the
\* others stay idle.
InitRetry ==
    /\ RetryInit /\ BuildIdle /\ LoadIdle /\ RetrieveIdle /\ ContextIdle
    /\ ChunkIdle /\ AskIdle /\ MmrIdle /\ PostIdle /\ PyIdle

InitBuild ==
    /\ BuildInit /\ RetryIdle /\ LoadIdle /\ RetrieveIdle /\ ContextIdle
    /\ ChunkIdle /\ AskIdle /\ MmrIdle /\ PostIdle /\ PyIdle

InitLoad ==
    /\ LoadInit /\ RetryIdle /\ BuildIdle /\ RetrieveIdle /\ ContextIdle
    /\ ChunkIdle /\ AskIdle /\ MmrIdle /\ PostIdle /\ PyIdle

InitRetrieve ==
    /\ RetrieveInit /\ RetryIdle /\ BuildIdle /\ LoadIdle /\ ContextIdle
    /\ ChunkIdle /\ AskIdle /\ MmrIdle /\ PostIdle /\ PyIdle

InitContext ==
    /\ ContextInit /\ RetryIdle /\ BuildIdle /\ LoadIdle /\ RetrieveIdle
    /\ ChunkIdle /\ AskIdle /\ MmrIdle /\ PostIdle /\ PyIdle

InitChunk ==
    /\ ChunkInit /\ RetryIdle /\ BuildIdle /\ LoadIdle /\ RetrieveIdle
    /\ ContextIdle /\ AskIdle /\ MmrIdle /\ PostIdle /\ PyIdle

InitAsk ==
    /\ AskInit /\ RetryIdle /\ BuildIdle /\ LoadIdle /\ RetrieveIdle
    /\ ContextIdle /\ ChunkIdle /\ MmrIdle /\ PostIdle /\ PyIdle

InitWide ==
    /\ WideInit /\ RetryIdle /\ BuildIdle /\ LoadIdle /\ ContextIdle
    /\ ChunkIdle /\ AskIdle /\ MmrIdle /\ PostIdle /\ PyIdle

InitMmr ==
    /\ MmrInit /\ RetryIdle /\ BuildIdle /\ LoadIdle /\ RetrieveIdle
    /\ ContextIdle /\ ChunkIdle /\ AskIdle /\ PostIdle /\ PyIdle

InitPost ==
    /\ PostInit /\ RetryIdle /\ BuildIdle /\ LoadIdle /\ RetrieveIdle
    /\ ContextIdle /\ ChunkIdle /\ AskIdle /\ MmrIdle /\ PyIdle

InitPy ==
    /\ PyInit /\ RetryIdle /\ BuildIdle /\ LoadIdle /\ RetrieveIdle
    /\ ContextIdle /\ ChunkIdle /\ AskIdle /\ MmrIdle /\ PostIdle

SpecRetry == InitRetry /\ [][RunEmbedWithRetry]_vars

SpecBuild == InitBuild /\ [][BuildNext]_vars

SpecLoad == InitLoad /\ [][LoadNext]_vars

SpecRetrieve == InitRetrieve /\ [][RetrieveNext]_vars

SpecContext == InitContext /\ [][ContextNext]_vars

SpecChunk == InitChunk /\ [][RunChunkStructured]_vars

SpecAsk == InitAsk /\ [][AskNext]_vars

SpecMmr == InitMmr /\ [][MmrNext]_vars

SpecWide == InitWide /\ [][RetrieveNext]_vars

SpecPost == InitPost /\ [][PostNext]_vars

SpecPy == InitPy /\ [][PyNext]_vars

====
